---- MODULE Spec2Model ----
(***************************************************************************)
(* Model of pptx-shredder's document production:                           *)
(*   - MarkdownFormatter (src/src/formatter.py): the three chunking        *)
(*     strategies, _create_chunk, the finalization/rendering loop of       *)
(*     format() and the front-matter filter of _generate_markdown;         *)
(*   - sanitize_filename (src/src/utils.py);                               *)
(*   - the aggregation of a slide group by _create_chunk, called directly; *)
(*   - PPTXExtractor.extract (src/src/extractor.py) and its per-slide      *)
(*     error handling;                                                     *)
(*   - IntelligentPPTXExtractor.extract_all_slides                         *)
(*     (src/src/intelligent_extractor.py) with the per-slide fallback;     *)
(*   - the batch loop _process_files (src/src/shred.py);                   *)
(*   - PPTXExtractor._is_module_start (src/src/extractor.py);              *)
(*   - the formatting step of _process_files:                              *)
(*     IntelligentMarkdownFormatter.format                                 *)
(*     (src/src/intelligent_formatter.py).                                 *)
(* Each part has its own specification; the variables of the other parts   *)
(* stay at their idle values.                                              *)
(*                                                                         *)
(* Text is modelled as a sequence of one-character strings, so that        *)
(* len(), slicing, strip() and the regular expressions of the source are   *)
(* computed character by character.  "NUL" and "TAB" stand for the         *)
(* characters U+0000 and U+0009.                                           *)
(*                                                                         *)
(* Token estimation follows the branch of _estimate_chunk_tokens that      *)
(* needs no external tokenizer (total characters // 4).                    *)
(***************************************************************************)
EXTENDS Integers, Sequences, FiniteSets, TLC

VARIABLES
    \* MarkdownFormatter instance (formatter.py:50-53)
    strategy, chunk_size,
    \* arguments of format() (formatter.py:64)
    slides_data, presentation_name,
    \* locals of the chunking pass (formatter.py:91-94, 161-163)
    chunks, current_chunk_slides, current_module_title, module_counter,
    chunk_counter,
    \* position of the for loops: next slide to read / next chunk to render
    pos, pc,
    \* result of format() (formatter.py:74) and the documents in render order
    markdown_files, rendered,
    \* history: the slide lists handed to _create_chunk, in call order
    create_calls,
    \* sanitize_filename call (utils.py:66): argument, result, position
    filename, sanitized, sf_pc,
    \* direct _create_chunk call (formatter.py:186) followed by
    \* _generate_markdown (formatter.py:490): slides argument, returned chunk,
    \* front-matter of its document, position; the front-matter a second run
    \* on the same slides produces
    cc_slides, cc_result, cc_frontmatter, cc_pc, cc_rerun,
    \* PPTXExtractor.extract (extractor.py:112): the slides of the
    \* presentation, the slides_data list, position
    ex_presentation, ex_slides_data, ex_pc,
    \* IntelligentPPTXExtractor (intelligent_extractor.py:53-65): use_llm and
    \* client; extract_all_slides (67-88): the slide contents, the slides
    \* list, position; history: the slides sent to the service and the
    \* outcome of each annotation
    ie_use_llm, ie_client, ie_contents, ie_slides, ie_pc, ie_sent, ie_outcomes,
    \* _process_files (shred.py:151): the files argument, the index of the
    \* file being processed, position; what the progress display shows: the
    \* advance of the main task; history: the files attempted, the files
    \* reported as failed, the files reported as complete
    pf_files, pf_index, pf_pc, pf_main_progress, pf_attempted, pf_failed,
    pf_succeeded,
    \* PPTXExtractor._is_module_start call (extractor.py:375): the two
    \* arguments, the value returned, position
    ms_title, ms_content, ms_result, ms_pc,
    \* the formatting of one presentation by _process_files (shred.py:151,
    \* 181-185): the strategy and chunk_size arguments, the slides returned by
    \* extract_all_slides, the stem of the file, the chunks and the mapping of
    \* IntelligentMarkdownFormatter.format (intelligent_formatter.py:29-50),
    \* position
    pl_strategy, pl_chunk_size, pl_slides_data, pl_stem, pl_chunks,
    pl_markdown_files, pl_pc

vars == << strategy, chunk_size, slides_data, presentation_name, chunks,
           current_chunk_slides, current_module_title, module_counter,
           chunk_counter, pos, pc, markdown_files, rendered, create_calls,
           filename, sanitized, sf_pc, cc_slides, cc_result, cc_frontmatter,
           cc_pc, cc_rerun, ex_presentation, ex_slides_data, ex_pc, ie_use_llm, ie_client,
           ie_contents, ie_slides, ie_pc, ie_sent, ie_outcomes, pf_files,
           pf_index, pf_pc, pf_main_progress, pf_attempted, pf_failed,
           pf_succeeded, ms_title, ms_content, ms_result, ms_pc, pl_strategy,
           pl_chunk_size, pl_slides_data, pl_stem, pl_chunks, pl_markdown_files,
           pl_pc >>

formatVars == << strategy, chunk_size, slides_data, presentation_name, chunks,
                 current_chunk_slides, current_module_title, module_counter,
                 chunk_counter, pos, pc, markdown_files, rendered,
                 create_calls >>

sanitizeVars == << filename, sanitized, sf_pc >>

createVars == << cc_slides, cc_result, cc_frontmatter, cc_pc, cc_rerun >>

extractVars == << ex_presentation, ex_slides_data, ex_pc >>

assistVars == << ie_use_llm, ie_client, ie_contents, ie_slides, ie_pc, ie_sent,
                 ie_outcomes >>

processVars == << pf_files, pf_index, pf_pc, pf_main_progress, pf_attempted,
                  pf_failed, pf_succeeded >>

detectVars == << ms_title, ms_content, ms_result, ms_pc >>

pipelineVars == << pl_strategy, pl_chunk_size, pl_slides_data, pl_stem, pl_chunks,
                   pl_markdown_files, pl_pc >>

\* the variables a format() call leaves alone
outsideFormat ==
    << sanitizeVars, createVars, extractVars, assistVars, processVars, detectVars, pipelineVars >>

\* the variables a sanitize_filename call leaves alone
outsideSanitize ==
    << formatVars, createVars, extractVars, assistVars, processVars, detectVars, pipelineVars >>

\* the variables a _create_chunk call leaves alone
outsideCreate ==
    << formatVars, sanitizeVars, extractVars, assistVars, processVars, detectVars, pipelineVars >>

\* the variables an extract() call leaves alone
outsideExtract ==
    << formatVars, sanitizeVars, createVars, assistVars, processVars, detectVars, pipelineVars >>

\* the variables an extract_all_slides() call leaves alone
outsideAssist ==
    << formatVars, sanitizeVars, createVars, extractVars, processVars, detectVars, pipelineVars >>

\* the variables a _process_files() call leaves alone
outsideProcess ==
    << formatVars, sanitizeVars, createVars, extractVars, assistVars, detectVars,
       pipelineVars >>

\* the variables an _is_module_start call leaves alone
outsideDetect ==
    << formatVars, sanitizeVars, createVars, extractVars, assistVars, processVars,
       pipelineVars >>

\* the variables the formatting step of _process_files leaves alone
outsidePipeline ==
    << formatVars, sanitizeVars, createVars, extractVars, assistVars, processVars,
       detectVars >>

-----------------------------------------------------------------------------
(* Bounds of the model *)

\* longest presentation (number of slides) handed to format()
MaxSlides == 3

\* longest presentation handed to format() together with a long name
MaxLongNameSlides == 2

\* longest filename enumerated exhaustively over FilenameAlphabet
MaxNameLen == 4

\* longest presentation handed to format() in the module-id specification
MaxModuleIdSlides == 4

\* longest slide list handed to _create_chunk directly
MaxGroupSlides == 3

\* longest presentation handed to PPTXExtractor.extract
MaxRawSlides == 2

\* longest presentation handed to IntelligentPPTXExtractor
MaxAssistSlides == 3

\* longest file list handed to _process_files
MaxFiles == 3


-----------------------------------------------------------------------------
(* Text helpers *)

Min(a, b) == IF a < b THEN a ELSE b

Max(a, b) == IF a > b THEN a ELSE b

Repeat(c, n) == [i \in 1..n |-> c]

LowerLetters ==
    << "a","b","c","d","e","f","g","h","i","j","k","l","m",
       "n","o","p","q","r","s","t","u","v","w","x","y","z" >>

UpperLetters ==
    << "A","B","C","D","E","F","G","H","I","J","K","L","M",
       "N","O","P","Q","R","S","T","U","V","W","X","Y","Z" >>

DigitChars == << "0","1","2","3","4","5","6","7","8","9" >>

Range(s) == { s[i] : i \in DOMAIN s }

\* str.upper() / str.lower(), one character
UpperChar(c) ==
    IF \E i \in 1..26 : LowerLetters[i] = c
    THEN UpperLetters[CHOOSE i \in 1..26 : LowerLetters[i] = c]
    ELSE c

LowerChar(c) ==
    IF \E i \in 1..26 : UpperLetters[i] = c
    THEN LowerLetters[CHOOSE i \in 1..26 : UpperLetters[i] = c]
    ELSE c

upper(s) == [i \in 1..Len(s) |-> UpperChar(s[i])]

lower(s) == [i \in 1..Len(s) |-> LowerChar(s[i])]

\* regex classes \w and \s, and [\x00-\x1f\x7f-\x9f]
WordChars ==
    Range(LowerLetters) \cup Range(UpperLetters) \cup Range(DigitChars) \cup {"_"}

IsWordChar(c) == c \in WordChars

ControlChars == {"NUL", "TAB"}

IsControlChar(c) == c \in ControlChars

SpaceChars == {" ", "TAB"}

IsSpaceChar(c) == c \in SpaceChars

\* re.sub(r'[^<class>]', '', s): the characters of s that are in the class
KeepChars(s, class) == SelectSeq(s, LAMBDA c : c \in class)

\* str.rfind(c) + 1 (0 when c does not occur)
RFind(s, c) ==
    IF \E i \in 1..Len(s) : s[i] = c
    THEN CHOOSE i \in 1..Len(s) : s[i] = c /\ \A j \in (i+1)..Len(s) : s[j] # c
    ELSE 0

\* s.lstrip(set) / s.rstrip(set) / s.strip(set)
LStrip(s, set) ==
    IF \A i \in 1..Len(s) : s[i] \in set THEN << >>
    ELSE LET f == CHOOSE i \in 1..Len(s) :
                      s[i] \notin set /\ \A j \in 1..(i-1) : s[j] \in set
         IN  SubSeq(s, f, Len(s))

RStrip(s, set) ==
    IF \A i \in 1..Len(s) : s[i] \in set THEN << >>
    ELSE LET l == CHOOSE i \in 1..Len(s) :
                      s[i] \notin set /\ \A j \in (i+1)..Len(s) : s[j] \in set
         IN  SubSeq(s, 1, l)

Strip(s, set) == RStrip(LStrip(s, set), set)

\* the Python slice s[:n], n of either sign
SliceTo(s, n) ==
    IF n >= 0 THEN SubSeq(s, 1, Min(n, Len(s)))
    ELSE SubSeq(s, 1, Max(0, Len(s) + n))

\* re.sub(r'[<class>]+', rep, s): every maximal run of class characters
\* becomes one rep
CollapseRuns(s, class, rep) ==
    LET keep(i) == s[i] \notin class \/ i = 1 \/ s[i-1] \notin class
        idx == SelectSeq([i \in 1..Len(s) |-> i], keep)
    IN  [k \in 1..Len(idx) |-> IF s[idx[k]] \in class THEN rep ELSE s[idx[k]]]

StartsWith(s, p) == Len(s) >= Len(p) /\ SubSeq(s, 1, Len(p)) = p

\* sub in s
Contains(s, sub) ==
    \E i \in 0..(Len(s) - Len(sub)) : SubSeq(s, i + 1, i + Len(sub)) = sub

\* list.extend over a sequence of lists
RECURSIVE Flatten(_)
Flatten(seqs) == IF seqs = << >> THEN << >> ELSE Head(seqs) \o Flatten(Tail(seqs))

-----------------------------------------------------------------------------
(* sanitize_filename, utils.py:66-114 *)

\* os.path.splitext on a POSIX path, as called at utils.py:74: the extension
\* starts at the last dot after the last '/', leading dots of the last
\* component do not start an extension
splitext(p) ==
    LET sepIndex == RFind(p, "/")
        dotIndex == RFind(p, ".")
    IN  IF dotIndex > sepIndex
           /\ \E k \in (sepIndex+1)..(dotIndex-1) : p[k] # "."
        THEN << SubSeq(p, 1, dotIndex - 1), SubSeq(p, dotIndex, Len(p)) >>
        ELSE << p, << >> >>

invalid_chars == { "<", ">", ":", "\"", "/", "\\", "|", "?", "*" }

windows_reserved ==
    { <<"C","O","N">>, <<"P","R","N">>, <<"A","U","X">>, <<"N","U","L">> }
    \cup { <<"C","O","M">> \o << DigitChars[d] >> : d \in 2..10 }
    \cup { <<"L","P","T">> \o << DigitChars[d] >> : d \in 2..10 }

\* the filename length the source caps at
MaxFilenameLength == 150

DefaultExt == << ".", "m", "d" >>

Untitled == << "u","n","t","i","t","l","e","d" >>

sanitize_filename(fname) ==
    IF fname = << >> THEN Untitled \o DefaultExt
    ELSE
    LET parts  == splitext(fname)
        ext    == IF parts[2] = << >> THEN DefaultExt ELSE parts[2]
        n1     == [i \in 1..Len(parts[1]) |->
                     IF parts[1][i] \in invalid_chars THEN "_" ELSE parts[1][i]]
        n2     == [i \in 1..Len(n1) |-> IF IsControlChar(n1[i]) THEN "_" ELSE n1[i]]
        n3     == CollapseRuns(n2, SpaceChars \cup {"_"}, "_")
        n4     == Strip(n3, {" ", ".", "_"})
        n5     == IF StartsWith(n4, << "." >>) THEN <<"f","i","l","e">> \o n4 ELSE n4
        n6     == IF upper(n5) \in windows_reserved
                  THEN <<"f","i","l","e","_">> \o n5 ELSE n5
        max_name_length == MaxFilenameLength - Len(ext)
        n7     == IF Len(n6) > max_name_length
                  THEN RStrip(SliceTo(n6, max_name_length), {"_"}) ELSE n6
        n8     == IF n7 = << >> THEN Untitled ELSE n7
    IN  n8 \o ext

\* characters of the exhaustively enumerated filenames
FilenameAlphabet == { "a", ".", "_", " ", "<", "/", "NUL" }

RECURSIVE AllStrings(_, _)
AllStrings(alphabet, n) ==
    IF n = 0 THEN { << >> }
    ELSE LET shorter == AllStrings(alphabet, n - 1)
         IN  shorter \cup { Append(s, c) : s \in { t \in shorter : Len(t) = n - 1 },
                                           c \in alphabet }

\* filenames of the tests (test_utils.py) and names around the length cap
SpecialNames ==
    { <<"C","O","N",".","m","d">>, <<"c","o","m","1",".","m","d">>,
      <<"C","O","N">>, <<"L","P","T","9",".","t","x","t">>,
      <<".","h","i","d","d","e","n",".","m","d">>,
      <<"f","i","l","e","<",">",":","\"","/","\\","|","?","*",".","m","d">>,
      <<"a",".","b","<","c">>, <<"a",".","b",":","c">> }

LongNames ==
    { Repeat("a", n) \o suf :
        n \in {146, 147, 148, 150, 200},
        suf \in { << >>, DefaultExt, <<"_","b","b",".","m","d">>, <<".","t","x","t","x">> } }
    \cup { <<"a",".">> \o Repeat("b", n) : n \in {148, 149, 153, 154, 160} }

FilenameInputs == AllStrings(FilenameAlphabet, MaxNameLen) \cup SpecialNames \cup LongNames

-----------------------------------------------------------------------------
(* Slide records (SlideData, extractor.py:19-38) and the inputs of format() *)

\* Python's None (an absent title is modelled as the empty text: the
\* formatter only ever tests a title for truth)
None == "None"

ActivityTypes == { None, "hands-on-lab" }

\* title, content and speaker_notes of a slide: a titled slide of 4
\* characters (1 token) and an untitled one of 12 characters (3 tokens)
SlideTexts ==
    { [title |-> <<"L","a","b">>, content |-> << <<"x">> >>,
       speaker_notes |-> << >>],
      [title |-> << >>, content |-> << Repeat("x", 5), Repeat("y", 3) >>,
       speaker_notes |-> Repeat("n", 4)] }

SlideAt(n, txt, ms, act) ==
    [slide_number |-> n, title |-> txt.title, content |-> txt.content,
     speaker_notes |-> txt.speaker_notes, is_module_start |-> ms,
     activity_type |-> act]

\* presentations: slides numbered 1..n in order (extractor.py numbers them
\* with enumerate(..., 1))
RECURSIVE Presentations(_)
Presentations(n) ==
    IF n = 0 THEN { << >> }
    ELSE LET shorter == Presentations(n - 1)
         IN  shorter \cup
             { Append(p, SlideAt(n, txt, ms, act)) :
                 p \in { q \in shorter : Len(q) = n - 1 },
                 txt \in SlideTexts, ms \in BOOLEAN, act \in ActivityTypes }

Strategies == { "instructional", "module-based", "sequential" }

\* token budgets: one that small groups overflow, one that nothing overflows
ChunkSizes == { 2, 100 }

PresentationNames == { <<"m","y"," ","d","e","c","k">> }

\* presentation names around the length at which the filename cap cuts into
\* the module id, up to the cap itself
LongPresentationNames == { Repeat("a", n) : n \in {144, 145, MaxFilenameLength} }

\* presentations of slides numbered 1..n built from the given texts and
\* activity types
RECURSIVE PresentationsOf(_, _, _)
PresentationsOf(n, texts, acts) ==
    IF n = 0 THEN { << >> }
    ELSE LET shorter == PresentationsOf(n - 1, texts, acts)
         IN  shorter \cup
             { Append(p, SlideAt(n, txt, ms, act)) :
                 p \in { q \in shorter : Len(q) = n - 1 },
                 txt \in texts, ms \in BOOLEAN, act \in acts }

\* slides whose titles exercise _generate_module_id: a title made of
\* punctuation only (its slug is empty; 12 characters, 3 tokens) and a
\* short titled slide (4 characters, 1 token)
ModuleIdTexts ==
    { [title |-> <<"?","!">>, content |-> << Repeat("x", 10) >>,
       speaker_notes |-> << >>],
      [title |-> <<"L","a","b">>, content |-> << <<"x">> >>,
       speaker_notes |-> << >>] }

\* a slide as the extractor leaves it when nothing is detected
\* (extractor.py:134-207: the defaults of _extract_slide)
DefaultSlide ==
    [slide_number |-> 0, title |-> <<"T">>, content |-> << <<"c">> >>,
     speaker_notes |-> << >>, is_module_start |-> FALSE, activity_type |-> None,
     learning_objectives |-> << >>, prerequisites |-> << >>,
     instructor_notes |-> [c \in {} |-> << >>],
     difficulty_level |-> "beginner", visual_elements |-> << >>,
     compliance_markers |-> << >>, slide_layout_type |-> "standard-content"]

Image(description) == [type |-> <<"i","m","a","g","e">>, description |-> description]

SOX == <<"S","O","X">>

ISO == <<"I","S","O">>

\* slides that differ from the default in one aggregated field
SlideVariants ==
    { DefaultSlide }
    \cup { [DefaultSlide EXCEPT !.activity_type = a] :
             a \in { "hands-on-lab", "demonstration" } }
    \cup { [DefaultSlide EXCEPT !.difficulty_level = d] :
             d \in { "intermediate", "advanced" } }
    \cup { [DefaultSlide EXCEPT !.learning_objectives = o] :
             o \in { << "Deploy" >>, << "deploy", "Deploy", "deploy" >> } }
    \cup { [DefaultSlide EXCEPT !.prerequisites = q] :
             q \in { << "Git" >>, << "Shell", "Git" >> } }
    \cup { [DefaultSlide EXCEPT !.visual_elements = v] :
             v \in { << Image(<<"a">>) >>, << Image(<<"b">>), Image(<<"a">>) >> } }
    \cup { [DefaultSlide EXCEPT !.compliance_markers = m] :
             m \in { << SOX >>, << ISO >>, << ISO, SOX >> } }
    \cup { [DefaultSlide EXCEPT !.slide_layout_type = t] :
             t \in { "image-focused" } }
    \cup { [DefaultSlide EXCEPT !.instructor_notes = g] :
             g \in { [c \in {"tips"} |-> << "tip 1" >>],
                     [c \in {"tips", "timing"} |->
                         IF c = "tips" THEN << "tip 2" >> ELSE << "5 min" >>] } }

\* the slide lists handed to _create_chunk: up to n slides numbered from 1
RECURSIVE SlideGroups(_)
SlideGroups(n) ==
    IF n = 0 THEN { << >> }
    ELSE LET shorter == SlideGroups(n - 1)
         IN  shorter \cup
             { Append(g, [v EXCEPT !.slide_number = n]) :
                 g \in { q \in shorter : Len(q) = n - 1 }, v \in SlideVariants }

\* the title and number test_create_chunk_empty_slides passes
TestModule == <<"T","e","s","t"," ","M","o","d","u","l","e">>

-----------------------------------------------------------------------------
(* MarkdownFormatter helpers *)

RECURSIVE DecStr(_)
\* str(n) for n >= 0
DecStr(n) ==
    IF n < 10 THEN << DigitChars[n + 1] >>
    ELSE DecStr(n \div 10) \o << DigitChars[(n % 10) + 1] >>

\* f"{n:02d}"
Pad2(n) == IF n < 10 THEN << "0" >> \o DecStr(n) ELSE DecStr(n)

RECURSIVE SumLen(_)
\* sum(len(x) for x in seq)
SumLen(seq) == IF seq = << >> THEN 0 ELSE Len(Head(seq)) + SumLen(Tail(seq))

SlideChars(slide) ==
    Len(slide.title) + SumLen(slide.content) + Len(slide.speaker_notes)

RECURSIVE TotalChars(_)
TotalChars(slides) ==
    IF slides = << >> THEN 0 ELSE SlideChars(Head(slides)) + TotalChars(Tail(slides))

\* formatter.py:459-478, the estimate without an encoder
estimate_chunk_tokens(slides) == TotalChars(slides) \div 4

\* mutant of find_break_point: the fallback lacks the minimum of 1
find_break_point_no_minimum(slides) ==
    LET changes == { i \in 1..(Len(slides) - 1) :
                        /\ slides[i + 1].activity_type # None
                        /\ slides[i + 1].activity_type # slides[i].activity_type }
    IN  IF changes # {}
        THEN CHOOSE i \in changes : \A j \in changes : j <= i
        ELSE (3 * Len(slides)) \div 4

\* formatter.py:480-488; the result is the Python index, i.e. the number of
\* slides before the break
find_break_point(slides) ==
    LET changes == { i \in 1..(Len(slides) - 1) :
                        /\ slides[i + 1].activity_type # None
                        /\ slides[i + 1].activity_type # slides[i].activity_type }
    IN  IF changes # {}
        THEN CHOOSE i \in changes : \A j \in changes : j <= i
        ELSE Max(1, (3 * Len(slides)) \div 4)

\* mutant of over_budget: the comparison is >= instead of >
over_budget_inclusive(slides, size) == estimate_chunk_tokens(slides) >= size

\* mutant of over_budget: the budget is compared with the character count
over_budget_in_chars(slides, size) == TotalChars(slides) > size

\* formatter.py:111 and 168: the group has outgrown the budget
over_budget(slides, size) == estimate_chunk_tokens(slides) > size

\* mutant of starts_new_module: the test of the current group is inverted
starts_new_module_on_empty(slide, current) ==
    slide.is_module_start /\ current = << >>

\* mutant of starts_new_module: a group of one slide is not closed
starts_new_module_late(slide, current) == slide.is_module_start /\ Len(current) > 1

\* formatter.py:98 and 140: the slide opens a new module
starts_new_module(slide, current) == slide.is_module_start /\ current # << >>

\* formatter.py:116: current_chunk_slides[:break_point]
break_head(slides, break_point) == SliceTo(slides, break_point)

\* mutant of break_rest: the slide at the break point is skipped
break_rest_skipping(slides, break_point) ==
    SubSeq(slides, break_point + 2, Len(slides))

\* formatter.py:121: current_chunk_slides[break_point:]
break_rest(slides, break_point) ==
    IF break_point >= 0 THEN SubSeq(slides, Min(break_point, Len(slides)) + 1, Len(slides))
    ELSE SubSeq(slides, Max(0, Len(slides) + break_point) + 1, Len(slides))

\* the slug length the source truncates to
MaxSlugLength == 30

\* mutant of generate_module_id: the id is the slug alone
generate_module_id_slug_only(title, number) ==
    LET low    == lower(title)
        kept   == KeepChars(low, WordChars \cup SpaceChars \cup {"-"})
        joined == Strip(CollapseRuns(kept, SpaceChars \cup {"-"}, "-"), {"-"})
        clean  == IF Len(joined) > MaxSlugLength
                  THEN RStrip(SliceTo(joined, MaxSlugLength), {"-"}) ELSE joined
    IN  clean

\* formatter.py:277-287
generate_module_id(title, number) ==
    LET low    == lower(title)
        kept   == KeepChars(low, WordChars \cup SpaceChars \cup {"-"})
        joined == Strip(CollapseRuns(kept, SpaceChars \cup {"-"}, "-"), {"-"})
        clean  == IF Len(joined) > MaxSlugLength
                  THEN RStrip(SliceTo(joined, MaxSlugLength), {"-"}) ELSE joined
    IN  Pad2(number) \o << "-" >> \o clean

Introduction == <<"I","n","t","r","o","d","u","c","t","i","o","n">>

\* f"Module {n}"
ModuleTitle(n) == <<"M","o","d","u","l","e"," ">> \o DecStr(n)

\* f"Module {n} (Continued)"
ContinuedTitle(n) ==
    ModuleTitle(n) \o <<" ","(","C","o","n","t","i","n","u","e","d",")">>

\* f"Section {n}"
SectionTitle(n) == <<"S","e","c","t","i","o","n"," ">> \o DecStr(n)

\* formatter.py:186-275: the chunk built from a non-empty slide list
create_chunk(slides, module_title, module_number, chunk_index, total_chunks) ==
    LET activity_types == SelectSeq(slides, LAMBDA s : s.activity_type # None)
    IN  [module_id     |-> generate_module_id(module_title, module_number),
         module_title  |-> module_title,
         slide_range   |-> << slides[1].slide_number, slides[Len(slides)].slide_number >>,
         activity_type |-> IF activity_types # << >>
                           THEN activity_types[1].activity_type ELSE None,
         chunk_index   |-> chunk_index,
         total_chunks  |-> total_chunks,
         learning_context |->
             [module_sequence_position |->
                 DecStr(chunk_index) \o <<" ","o","f"," ">> \o DecStr(total_chunks)]]

\* mutant of create_chunk_raises: the guard is missing
create_chunk_never_raises(slides) == FALSE

\* formatter.py:188-189: the guard that raises ValueError
create_chunk_raises(slides) == slides = << >>

\* list(dict.fromkeys(items)): the distinct items in first-seen order
RECURSIVE fromkeys(_)
fromkeys(items) ==
    IF items = << >> THEN << >>
    ELSE << Head(items) >> \o
         fromkeys(SelectSeq(Tail(items), LAMBDA x : x # Head(items)))

\* list(set(items)): the distinct items in the iteration order of a Python
\* set, which depends on the hashes of the strings; every order can occur
list_of_set(items) ==
    LET S == Range(items)
    IN  { f \in [1..Cardinality(S) -> S] : Range(f) = S }

\* mutant of learning_objectives_of: the list is not deduplicated
learning_objectives_with_duplicates(slides) ==
    Flatten([i \in 1..Len(slides) |-> slides[i].learning_objectives])

\* formatter.py:206, 225
learning_objectives_of(slides) ==
    fromkeys(Flatten([i \in 1..Len(slides) |-> slides[i].learning_objectives]))

\* formatter.py:207, 226
prerequisites_of(slides) ==
    fromkeys(Flatten([i \in 1..Len(slides) |-> slides[i].prerequisites]))

\* formatter.py:216-217: f"{element['type']}: {element['description']}"
element_summary(element) == element.type \o << ":", " " >> \o element.description

\* formatter.py:216-217, 228
visual_elements_summary_of(slides) ==
    fromkeys(Flatten([i \in 1..Len(slides) |->
        [j \in 1..Len(slides[i].visual_elements) |->
            element_summary(slides[i].visual_elements[j])]]))

\* formatter.py:209, 227: the lists list(set(compliance_markers)) can be
compliance_markers_of(slides) ==
    list_of_set(Flatten([i \in 1..Len(slides) |-> slides[i].compliance_markers]))

\* formatter.py:220, 271: the lists list(set(slide_layout_types)) can be
slide_layout_types_of(slides) ==
    list_of_set([i \in 1..Len(slides) |-> slides[i].slide_layout_type])

\* formatter.py:197: the keys of the instructor_guidance literal, in order
GuidanceCategories ==
    << "timing", "emphasis", "examples", "tips", "warnings", "context",
       "delivery" >>

\* formatter.py:197, 212-213
instructor_guidance_of(slides) ==
    [category \in Range(GuidanceCategories) |->
        Flatten([i \in 1..Len(slides) |->
            IF category \in DOMAIN slides[i].instructor_notes
            THEN slides[i].instructor_notes[category] ELSE << >>])]

\* difficulty_levels.count(level), formatter.py:238
difficulty_count(slides, level) ==
    Cardinality({ i \in 1..Len(slides) : slides[i].difficulty_level = level })

\* formatter.py:238-239: max() over a dict built from set(difficulty_levels)
\* returns the first key of maximal count in the set's iteration order,
\* which depends on the hashes of the strings: any level of maximal count
difficulty_level_of(slides) ==
    { level \in { slides[i].difficulty_level : i \in 1..Len(slides) } :
        \A i \in 1..Len(slides) :
            difficulty_count(slides, slides[i].difficulty_level)
                <= difficulty_count(slides, level) }

\* mutant of primary_activity_type: the last truthy activity type
primary_activity_type_last(slides) ==
    LET activity_types == SelectSeq(slides, LAMBDA s : s.activity_type # None)
    IN  IF activity_types # << >>
        THEN activity_types[Len(activity_types)].activity_type ELSE None

\* formatter.py:234-235
primary_activity_type(slides) ==
    LET activity_types == SelectSeq(slides, LAMBDA s : s.activity_type # None)
    IN  IF activity_types # << >>
        THEN activity_types[1].activity_type ELSE None

\* formatter.py:254-273: the ChunkData returned by _create_chunk, for one
\* outcome of the three set iterations
ChunkData(slides, module_title, module_number, compliance_markers, difficulty_level, slide_layout_types) ==
    [module_id      |-> generate_module_id(module_title, module_number),
     module_title   |-> module_title,
     slide_range    |-> << slides[1].slide_number, slides[Len(slides)].slide_number >>,
     learning_objectives |-> learning_objectives_of(slides),
     activity_type  |-> primary_activity_type(slides),
     prerequisites  |-> prerequisites_of(slides),
     difficulty_level |-> difficulty_level,
     instructor_guidance |-> instructor_guidance_of(slides),
     compliance_markers |-> compliance_markers,
     visual_elements_summary |-> visual_elements_summary_of(slides),
     slide_layout_types |-> slide_layout_types,
     \* the default values of the two position parameters
     chunk_index    |-> 1,
     total_chunks   |-> 1,
     learning_context |->
         [module_sequence_position |-> DecStr(1) \o <<" ","o","f"," ">> \o DecStr(1)]]

-----------------------------------------------------------------------------
(* _generate_markdown, formatter.py:490-586 *)

\* mutant of frontmatter_of: chunk_index is written 0-based
frontmatter_of_zero_based(chunk) ==
    LET raw == [module_id     |-> chunk.module_id,
                module_title  |-> chunk.module_title,
                slide_range   |-> chunk.slide_range,
                chunk_index   |-> chunk.chunk_index - 1,
                total_chunks  |-> chunk.total_chunks,
                learning_context |-> chunk.learning_context,
                activity_type |-> chunk.activity_type]
        kept == (IF raw.module_id # << >> THEN {"module_id"} ELSE {})
                \cup (IF raw.module_title # << >> THEN {"module_title"} ELSE {})
                \cup (IF raw.slide_range # << >> THEN {"slide_range"} ELSE {})
                \cup (IF raw.chunk_index # 0 THEN {"chunk_index"} ELSE {})
                \cup (IF raw.total_chunks # 0 THEN {"total_chunks"} ELSE {})
                \cup {"learning_context"}
                \cup (IF raw.activity_type # None THEN {"activity_type"} ELSE {})
    IN  [k \in kept |-> raw[k]]

\* formatter.py:493-535: the front-matter entries that survive the filter
\* {k: v for k, v in frontmatter.items() if v}
frontmatter_of(chunk) ==
    LET raw == [module_id     |-> chunk.module_id,
                module_title  |-> chunk.module_title,
                slide_range   |-> chunk.slide_range,
                chunk_index   |-> chunk.chunk_index,
                total_chunks  |-> chunk.total_chunks,
                learning_context |-> chunk.learning_context,
                activity_type |-> chunk.activity_type]
        kept == (IF raw.module_id # << >> THEN {"module_id"} ELSE {})
                \cup (IF raw.module_title # << >> THEN {"module_title"} ELSE {})
                \cup (IF raw.slide_range # << >> THEN {"slide_range"} ELSE {})
                \cup (IF raw.chunk_index # 0 THEN {"chunk_index"} ELSE {})
                \cup (IF raw.total_chunks # 0 THEN {"total_chunks"} ELSE {})
                \cup {"learning_context"}
                \cup (IF raw.activity_type # None THEN {"activity_type"} ELSE {})
    IN  [k \in kept |-> raw[k]]

\* formatter.py:500-502, 506, 512, 518-523 and 535: the aggregated fields of the
\* front-matter, empty values removed
aggregates_frontmatter_of(chunk) ==
    LET raw == [learning_objectives |-> chunk.learning_objectives,
                prerequisites       |-> chunk.prerequisites,
                difficulty_level    |-> chunk.difficulty_level,
                slide_layout_types  |-> chunk.slide_layout_types,
                compliance_markers  |-> chunk.compliance_markers,
                visual_elements_count |-> Len(chunk.visual_elements_summary),
                instructor_guidance_categories |->
                    IF DOMAIN chunk.instructor_guidance # {}
                    THEN SelectSeq(GuidanceCategories,
                             LAMBDA c : c \in DOMAIN chunk.instructor_guidance)
                    ELSE << >>]
        kept == (IF raw.learning_objectives # << >> THEN {"learning_objectives"} ELSE {})
                \cup (IF raw.prerequisites # << >> THEN {"prerequisites"} ELSE {})
                \cup {"difficulty_level"}
                \cup (IF raw.slide_layout_types # << >> THEN {"slide_layout_types"} ELSE {})
                \cup (IF raw.compliance_markers # << >> THEN {"compliance_markers"} ELSE {})
                \cup (IF raw.visual_elements_count # 0 THEN {"visual_elements_count"} ELSE {})
                \cup (IF raw.instructor_guidance_categories # << >>
                      THEN {"instructor_guidance_categories"} ELSE {})
    IN  [k \in kept |-> raw[k]]

\* formatter.py:493-535: the front-matter of a chunk built by _create_chunk
full_frontmatter_of(chunk) ==
    LET core == frontmatter_of(chunk)
        aggregates == aggregates_frontmatter_of(chunk)
    IN  [k \in DOMAIN core \cup DOMAIN aggregates |->
            IF k \in DOMAIN core THEN core[k] ELSE aggregates[k]]

generate_markdown(chunk) ==
    [frontmatter |-> frontmatter_of(chunk),
     heading     |-> chunk.module_title,
     \* formatter.py:548-552: "part X of Y" only when there are several chunks
     part_note   |-> IF chunk.total_chunks > 1
                     THEN << chunk.chunk_index, chunk.total_chunks >> ELSE << >>]

-----------------------------------------------------------------------------
(* State machine of MarkdownFormatter.format *)

\* shred.py:44 and intelligent_formatter.py:25: the default of --chunk-size
DefaultChunkSize == 1500

NoFiles == [f \in {} |-> << >>]

\* no _create_chunk result, no front-matter
NoChunk == [returned |-> FALSE]

NoFrontmatter == [k \in {} |-> << >>]

\* formatter.py:134-150: the locals of _chunk_by_modules after its loop has
\* read the first k slides
RECURSIVE modules_pass(_, _)
modules_pass(slides, k) ==
    IF k = 0
    THEN [chunks |-> << >>, current_chunk_slides |-> << >>,
          current_module_title |-> Introduction, module_counter |-> 1]
    ELSE LET before == modules_pass(slides, k - 1)
             slide  == slides[k]
         IN  IF starts_new_module(slide, before.current_chunk_slides)
             THEN [chunks |-> Append(before.chunks,
                       create_chunk(before.current_chunk_slides,
                                    before.current_module_title,
                                    before.module_counter,
                                    Len(before.chunks) + 1, 0)),
                   current_chunk_slides |-> << slide >>,
                   current_module_title |->
                       IF slide.title # << >> THEN slide.title
                       ELSE ModuleTitle(before.module_counter + 1),
                   module_counter |-> before.module_counter + 1]
             ELSE [before EXCEPT !.current_chunk_slides = Append(@, slide)]

\* formatter.py:132-157: the list _chunk_by_modules returns
chunk_by_modules(slides) ==
    LET last == modules_pass(slides, Len(slides))
    IN  IF last.current_chunk_slides # << >>
        THEN Append(last.chunks,
                 create_chunk(last.current_chunk_slides, last.current_module_title,
                              last.module_counter, Len(last.chunks) + 1, 0))
        ELSE last.chunks

\* the locals of a format() call that has not started
FormatLocalsIdle ==
    /\ slides_data = << >>
    /\ presentation_name = << >>
    /\ chunks = << >>
    /\ current_chunk_slides = << >>
    /\ current_module_title = << >>
    /\ module_counter = 0
    /\ chunk_counter = 0
    /\ pos = 0
    /\ pc = "new"
    /\ markdown_files = NoFiles
    /\ rendered = << >>
    /\ create_calls = << >>

\* no format() call is made
FormatIdle ==
    /\ strategy = "instructional"
    /\ chunk_size = 100
    /\ FormatLocalsIdle

\* no sanitize_filename call is made
SanitizeIdle ==
    /\ filename = << >>
    /\ sanitized = << >>
    /\ sf_pc = "idle"

\* no direct _create_chunk call is made
CreateIdle ==
    /\ cc_slides = << >>
    /\ cc_result = NoChunk
    /\ cc_frontmatter = NoFrontmatter
    /\ cc_pc = "idle"
    /\ cc_rerun = NoFrontmatter

\* no extract() call is made
ExtractIdle ==
    /\ ex_presentation = << >>
    /\ ex_slides_data = << >>
    /\ ex_pc = "idle"

\* no IntelligentPPTXExtractor is constructed
AssistIdle ==
    /\ ie_use_llm = FALSE
    /\ ie_client = None
    /\ ie_contents = << >>
    /\ ie_slides = << >>
    /\ ie_pc = "idle"
    /\ ie_sent = << >>
    /\ ie_outcomes = << >>

\* no _process_files call is made
ProcessIdle ==
    /\ pf_files = << >>
    /\ pf_index = 0
    /\ pf_pc = "idle"
    /\ pf_main_progress = 0
    /\ pf_attempted = << >>
    /\ pf_failed = << >>
    /\ pf_succeeded = << >>

\* no _is_module_start call is made
DetectIdle ==
    /\ ms_title = << >>
    /\ ms_content = << >>
    /\ ms_result = FALSE
    /\ ms_pc = "idle"

\* no presentation is formatted by _process_files
PipelineIdle ==
    /\ pl_strategy = "instructional"
    /\ pl_chunk_size = DefaultChunkSize
    /\ pl_slides_data = << >>
    /\ pl_stem = << >>
    /\ pl_chunks = << >>
    /\ pl_markdown_files = NoFiles
    /\ pl_pc = "idle"

\* state after MarkdownFormatter(strategy, chunk_size), no call made yet
Init ==
    /\ strategy \in Strategies
    /\ chunk_size \in ChunkSizes
    /\ FormatLocalsIdle
    /\ SanitizeIdle
    /\ CreateIdle
    /\ ExtractIdle
    /\ AssistIdle
    /\ ProcessIdle
    /\ DetectIdle
    /\ PipelineIdle

\* formatter.py:64-71 with 91-94 / 134-137 / 161-163: format() is entered and
\* the selected chunker initialises its locals
FormatCallWith(presentations, names) ==
    /\ pc = "new"
    /\ \E sd \in presentations, name \in names :
          /\ slides_data' = sd
          /\ presentation_name' = name
    /\ chunks' = << >>
    /\ current_chunk_slides' = << >>
    /\ current_module_title' = IF strategy = "sequential" THEN << >> ELSE Introduction
    /\ module_counter' = IF strategy = "sequential" THEN 0 ELSE 1
    /\ chunk_counter' = IF strategy = "sequential" THEN 1 ELSE 0
    /\ pos' = 1
    /\ pc' = "chunking"
    /\ UNCHANGED << strategy, chunk_size, markdown_files, rendered, create_calls,
                    outsideFormat >>

FormatCall == FormatCallWith(Presentations(MaxSlides), PresentationNames)

FormatCallLongName ==
    FormatCallWith(Presentations(MaxLongNameSlides), LongPresentationNames)

\* a call of _create_chunk from a chunking pass: the chunk is appended, or the
\* ValueError of formatter.py:189 ends the pass
Emit(slides, title, number, rest_slides, rest_title, rest_number, rest_counter) ==
    /\ create_calls' = Append(create_calls, [i \in 1..Len(slides) |-> slides[i].slide_number])
    /\ IF create_chunk_raises(slides)
       THEN /\ pc' = "raised"
            /\ UNCHANGED << chunks, current_chunk_slides, current_module_title,
                            module_counter, chunk_counter, pos >>
       ELSE /\ chunks' = Append(chunks, create_chunk(slides, title, number,
                                                     Len(chunks) + 1, 0))
            /\ current_chunk_slides' = rest_slides
            /\ current_module_title' = rest_title
            /\ module_counter' = rest_number
            /\ chunk_counter' = rest_counter
            /\ pos' = pos + 1
            /\ pc' = "chunking"

\* formatter.py:96-123: one iteration of the instructional loop
InstructionalStep ==
    /\ pc = "chunking" /\ strategy = "instructional"
    /\ pos <= Len(slides_data)
    /\ LET slide == slides_data[pos]
           grown == Append(current_chunk_slides, slide)
       IN  IF starts_new_module(slide, current_chunk_slides)
           THEN Emit(current_chunk_slides, current_module_title, module_counter,
                     << slide >>,
                     IF slide.title # << >> THEN slide.title
                     ELSE ModuleTitle(module_counter + 1),
                     module_counter + 1, chunk_counter)
           ELSE IF over_budget(grown, chunk_size)
                THEN LET break_point == find_break_point(grown)
                     IN  Emit(break_head(grown, break_point), current_module_title,
                              module_counter,
                              break_rest(grown, break_point),
                              ContinuedTitle(module_counter + 1),
                              module_counter + 1, chunk_counter)
                ELSE /\ current_chunk_slides' = grown
                     /\ pos' = pos + 1
                     /\ UNCHANGED << chunks, current_module_title, module_counter,
                                     chunk_counter, pc, create_calls >>
    /\ UNCHANGED << strategy, chunk_size, slides_data, presentation_name,
                    markdown_files, rendered, outsideFormat >>

\* formatter.py:139-150: one iteration of the module-based loop
ModulesStep ==
    /\ pc = "chunking" /\ strategy = "module-based"
    /\ pos <= Len(slides_data)
    /\ LET slide == slides_data[pos]
       IN  IF starts_new_module(slide, current_chunk_slides)
           THEN Emit(current_chunk_slides, current_module_title, module_counter,
                     << slide >>,
                     IF slide.title # << >> THEN slide.title
                     ELSE ModuleTitle(module_counter + 1),
                     module_counter + 1, chunk_counter)
           ELSE /\ current_chunk_slides' = Append(current_chunk_slides, slide)
                /\ pos' = pos + 1
                /\ UNCHANGED << chunks, current_module_title, module_counter,
                                chunk_counter, pc, create_calls >>
    /\ UNCHANGED << strategy, chunk_size, slides_data, presentation_name,
                    markdown_files, rendered, outsideFormat >>

\* formatter.py:165-177: one iteration of the sequential loop
SequentialStep ==
    /\ pc = "chunking" /\ strategy = "sequential"
    /\ pos <= Len(slides_data)
    /\ LET slide == slides_data[pos]
           grown == Append(current_chunk_slides, slide)
           chunk_slides == SubSeq(grown, 1, Len(grown) - 1)
       IN  IF over_budget(grown, chunk_size)
           THEN IF chunk_slides # << >>
                THEN Emit(chunk_slides, SectionTitle(chunk_counter), chunk_counter,
                          << slide >>, current_module_title, module_counter,
                          chunk_counter + 1)
                ELSE /\ current_chunk_slides' = << slide >>
                     /\ pos' = pos + 1
                     /\ UNCHANGED << chunks, current_module_title, module_counter,
                                     chunk_counter, pc, create_calls >>
           ELSE /\ current_chunk_slides' = grown
                /\ pos' = pos + 1
                /\ UNCHANGED << chunks, current_module_title, module_counter,
                                chunk_counter, pc, create_calls >>
    /\ UNCHANGED << strategy, chunk_size, slides_data, presentation_name,
                    markdown_files, rendered, outsideFormat >>

\* formatter.py:125-130, 152-157, 179-184 and 74-75: the final chunk, then
\* the rendering loop starts
FinishChunking ==
    /\ pc = "chunking"
    /\ pos > Len(slides_data)
    /\ IF current_chunk_slides # << >>
       THEN /\ create_calls' = Append(create_calls,
                 [i \in 1..Len(current_chunk_slides) |->
                     current_chunk_slides[i].slide_number])
            /\ chunks' = Append(chunks,
                 IF strategy = "sequential"
                 THEN create_chunk(current_chunk_slides, SectionTitle(chunk_counter),
                                   chunk_counter, Len(chunks) + 1, 0)
                 ELSE create_chunk(current_chunk_slides, current_module_title,
                                   module_counter, Len(chunks) + 1, 0))
       ELSE UNCHANGED << chunks, create_calls >>
    /\ pc' = "rendering"
    /\ UNCHANGED << strategy, chunk_size, slides_data, presentation_name,
                    current_chunk_slides, current_module_title, module_counter,
                    chunk_counter, pos, markdown_files, rendered, outsideFormat >>

\* f"{presentation_name}_{chunk.module_id}.md", formatter.py:82
raw_filename(name, chunk) == name \o << "_" >> \o chunk.module_id \o DefaultExt

\* mutant of finalized: the index is the 0-based enumerate() index
finalized_zero_based(chunk, i, total) ==
    [chunk EXCEPT !.chunk_index = i - 1, !.total_chunks = total]

\* mutant of finalized: the learning context is rewritten with the final
\* position as well
finalized_with_context(chunk, i, total) ==
    [chunk EXCEPT !.chunk_index = i, !.total_chunks = total,
                  !.learning_context.module_sequence_position =
                      DecStr(i) \o <<" ","o","f"," ">> \o DecStr(total)]

\* formatter.py:78-79: the position fields of the i-th chunk
finalized(chunk, i, total) ==
    [chunk EXCEPT !.chunk_index = i, !.total_chunks = total]

\* formatter.py:76-85: one iteration of the rendering loop
RenderStep ==
    /\ pc = "rendering"
    /\ Len(rendered) < Len(chunks)
    /\ LET i     == Len(rendered) + 1
           chunk == finalized(chunks[i], i, Len(chunks))
           fn    == sanitize_filename(raw_filename(presentation_name, chunk))
           doc   == generate_markdown(chunk)
       IN  /\ chunks' = [chunks EXCEPT ![i] = chunk]
           /\ markdown_files' = [f \in DOMAIN markdown_files \cup {fn} |->
                                    IF f = fn THEN doc ELSE markdown_files[f]]
           /\ rendered' = Append(rendered, [filename |-> fn, content |-> doc])
    /\ UNCHANGED << strategy, chunk_size, slides_data, presentation_name,
                    current_chunk_slides, current_module_title, module_counter,
                    chunk_counter, pos, pc, create_calls, outsideFormat >>

\* formatter.py:87
FormatReturn ==
    /\ pc = "rendering"
    /\ Len(rendered) = Len(chunks)
    /\ pc' = "done"
    /\ UNCHANGED << strategy, chunk_size, slides_data, presentation_name, chunks,
                    current_chunk_slides, current_module_title, module_counter,
                    chunk_counter, pos, markdown_files, rendered, create_calls,
                    outsideFormat >>

Next ==
    \/ FormatCall
    \/ InstructionalStep
    \/ ModulesStep
    \/ SequentialStep
    \/ FinishChunking
    \/ RenderStep
    \/ FormatReturn

Spec == Init /\ [][Next]_vars

\* the same machine with presentation names near the filename length cap
LongNameNext ==
    \/ FormatCallLongName
    \/ InstructionalStep
    \/ ModulesStep
    \/ SequentialStep
    \/ FinishChunking
    \/ RenderStep
    \/ FormatReturn

LongNameSpec == Init /\ [][LongNameNext]_vars

\* the same machine on presentations whose titles repeat or have no slug
FormatCallModuleId ==
    FormatCallWith(PresentationsOf(MaxModuleIdSlides, ModuleIdTexts, { None }),
                   PresentationNames)

ModuleIdNext ==
    \/ FormatCallModuleId
    \/ InstructionalStep
    \/ ModulesStep
    \/ SequentialStep
    \/ FinishChunking
    \/ RenderStep
    \/ FormatReturn

ModuleIdSpec == Init /\ [][ModuleIdNext]_vars

-----------------------------------------------------------------------------
(* State machine of one sanitize_filename call *)

SanitizeInit ==
    /\ FormatIdle
    /\ CreateIdle
    /\ ExtractIdle
    /\ AssistIdle
    /\ ProcessIdle
    /\ DetectIdle
    /\ PipelineIdle
    /\ filename \in FilenameInputs
    /\ sanitized = << >>
    /\ sf_pc = "called"

\* utils.py:66-114
SanitizeFilename ==
    /\ sf_pc = "called"
    /\ sanitized' = sanitize_filename(filename)
    /\ sf_pc' = "returned"
    /\ UNCHANGED << filename, outsideSanitize >>

SanitizeNext == SanitizeFilename

SanitizeSpec == SanitizeInit /\ [][SanitizeNext]_vars

-----------------------------------------------------------------------------
(* State machine of one direct _create_chunk call and the rendering of its
   chunk *)

CreateInit ==
    /\ FormatIdle
    /\ SanitizeIdle
    /\ ExtractIdle
    /\ AssistIdle
    /\ ProcessIdle
    /\ DetectIdle
    /\ PipelineIdle
    /\ cc_slides \in SlideGroups(MaxGroupSlides)
    /\ cc_result = NoChunk
    /\ cc_frontmatter = NoFrontmatter
    /\ cc_pc = "called"
    /\ cc_rerun = NoFrontmatter

\* formatter.py:186-275
CreateChunk ==
    /\ cc_pc = "called"
    /\ IF create_chunk_raises(cc_slides)
       THEN \* ValueError, formatter.py:189
            /\ cc_pc' = "ValueError"
            /\ cc_result' = NoChunk
       ELSE IF cc_slides = << >>
            THEN \* slides[0] of an empty list, formatter.py:191
                 /\ cc_pc' = "IndexError"
                 /\ cc_result' = NoChunk
            ELSE /\ \E markers \in compliance_markers_of(cc_slides),
                       difficulty \in difficulty_level_of(cc_slides),
                       layouts \in slide_layout_types_of(cc_slides) :
                       cc_result' = ChunkData(cc_slides, TestModule, 1,
                                              markers, difficulty, layouts)
                 /\ cc_pc' = "returned"
    /\ UNCHANGED << cc_slides, cc_frontmatter, cc_rerun, outsideCreate >>

\* formatter.py:490-535
GenerateMarkdown ==
    /\ cc_pc = "returned"
    /\ cc_frontmatter' = full_frontmatter_of(cc_result)
    /\ cc_pc' = "rendered"
    /\ UNCHANGED << cc_slides, cc_result, cc_rerun, outsideCreate >>

CreateNext ==
    \/ CreateChunk
    \/ GenerateMarkdown

CreateSpec == CreateInit /\ [][CreateNext]_vars

\* formatter.py:186-275, 490-535: the same slides are chunked and rendered
\* once more, in another run of the program; the three set iterations are
\* free to come out in another order (the string hashes differ from one
\* interpreter process to the next)
SecondRun ==
    /\ cc_pc = "rendered"
    /\ \E markers \in compliance_markers_of(cc_slides),
          difficulty \in difficulty_level_of(cc_slides),
          layouts \in slide_layout_types_of(cc_slides) :
          cc_rerun' = full_frontmatter_of(
                          ChunkData(cc_slides, TestModule, 1, markers,
                                    difficulty, layouts))
    /\ cc_pc' = "rerun"
    /\ UNCHANGED << cc_slides, cc_result, cc_frontmatter, outsideCreate >>

RerunNext ==
    \/ CreateNext
    \/ SecondRun

RerunSpec == CreateInit /\ [][RerunNext]_vars

-----------------------------------------------------------------------------
(* PPTXExtractor.extract: the per-slide extraction and its error handling *)

\* the steps of _extract_slide that run directly under the outer try
\* (extractor.py:125-127)
CoreSteps == { "title", "content", "speaker_notes" }

\* the steps of _extract_slide that have a handler of their own
\* (extractor.py:135-207)
FieldSteps ==
    { "code_blocks", "is_module_start", "learning_objectives", "activity_type",
      "instructor_notes", "prerequisites", "difficulty_level", "estimated_time",
      "visual_elements", "structured_content", "assessment_items",
      "compliance_markers", "slide_layout_type" }

\* extractor.py:136-207: the value a field takes when its step raises
FieldDefaults ==
    [code_blocks |-> << >>, is_module_start |-> FALSE,
     learning_objectives |-> << >>, activity_type |-> None,
     instructor_notes |-> [c \in {} |-> << >>], prerequisites |-> << >>,
     difficulty_level |-> "beginner", estimated_time |-> 2,
     visual_elements |-> << >>,
     structured_content |-> [lists |-> << >>, emphasized_text |-> << >>,
                             headings |-> << >>, layout_sections |-> << >>],
     assessment_items |-> << >>, compliance_markers |-> << >>,
     slide_layout_type |-> "standard-content"]

\* what the detection steps return for a slide on which everything is found
Detected ==
    [code_blocks |-> << [code |-> "ls", language |-> "bash"] >>,
     is_module_start |-> TRUE,
     learning_objectives |-> << "Deploy" >>, activity_type |-> "hands-on-lab",
     instructor_notes |-> [c \in {"tips"} |-> << "tip 1" >>],
     prerequisites |-> << "Git" >>,
     difficulty_level |-> "advanced", estimated_time |-> 5,
     visual_elements |-> << Image(<<"a">>) >>,
     structured_content |-> [lists |-> << "l" >>, emphasized_text |-> << >>,
                             headings |-> << >>, layout_sections |-> << >>],
     assessment_items |-> << [type |-> "question"] >>,
     compliance_markers |-> << SOX >>,
     slide_layout_type |-> "image-focused"]

\* the text of a slide of the presentation: a titled slide with content and
\* notes, and a slide on which no text is found
RawTexts ==
    { [title |-> <<"L","a","b">>, content |-> << <<"x">> >>,
       speaker_notes |-> <<"n">>],
      [title |-> << >>, content |-> << >>, speaker_notes |-> << >>] }

\* a slide of the presentation: its text and the step of _extract_slide
\* that raises on it, if any
RawSlides ==
    [text : RawTexts, fault : { "none" } \cup CoreSteps \cup FieldSteps]

RECURSIVE RawPresentations(_)
RawPresentations(n) ==
    IF n = 0 THEN { << >> }
    ELSE LET shorter == RawPresentations(n - 1)
         IN  shorter \cup
             { Append(p, r) : p \in { q \in shorter : Len(q) = n - 1 },
                              r \in RawSlides }

\* f"Slide {slide_number}"
SlideTitle(slide_number) == <<"S","l","i","d","e"," ">> \o DecStr(slide_number)

ExtractionFailed ==
    <<" ","(","E","x","t","r","a","c","t","i","o","n"," ",
      "F","a","i","l","e","d",")">>

\* "[Content extraction failed]"
ContentExtractionFailed == "[Content extraction failed]"

\* "[Slide content could not be extracted]"
ContentNotExtracted == "[Slide content could not be extracted]"

\* extractor.py:211-229: the minimal viable slide data
Placeholder(slide_number) ==
    [slide_number |-> slide_number,
     title |-> SlideTitle(slide_number) \o ExtractionFailed,
     content |-> << ContentExtractionFailed >>,
     speaker_notes |-> << >>,
     code_blocks |-> FieldDefaults.code_blocks,
     is_module_start |-> FieldDefaults.is_module_start,
     learning_objectives |-> FieldDefaults.learning_objectives,
     activity_type |-> FieldDefaults.activity_type,
     instructor_notes |-> FieldDefaults.instructor_notes,
     prerequisites |-> FieldDefaults.prerequisites,
     difficulty_level |-> FieldDefaults.difficulty_level,
     estimated_time |-> FieldDefaults.estimated_time,
     visual_elements |-> FieldDefaults.visual_elements,
     structured_content |-> FieldDefaults.structured_content,
     assessment_items |-> FieldDefaults.assessment_items,
     compliance_markers |-> FieldDefaults.compliance_markers,
     slide_layout_type |-> FieldDefaults.slide_layout_type]

\* extractor.py:124-207 and 231-249: the record of a slide on which no core
\* step raises
Extracted(raw, slide_number) ==
    LET empty == raw.text.title = << >> /\ raw.text.content = << >>
                 /\ raw.text.speaker_notes = << >>
        field(step) == IF raw.fault = step THEN FieldDefaults[step]
                       ELSE Detected[step]
    IN  [slide_number |-> slide_number,
         title |-> IF empty THEN SlideTitle(slide_number) ELSE raw.text.title,
         content |-> IF empty THEN << ContentNotExtracted >> ELSE raw.text.content,
         speaker_notes |-> raw.text.speaker_notes,
         code_blocks |-> field("code_blocks"),
         is_module_start |-> field("is_module_start"),
         learning_objectives |-> field("learning_objectives"),
         activity_type |-> field("activity_type"),
         instructor_notes |-> field("instructor_notes"),
         prerequisites |-> field("prerequisites"),
         difficulty_level |-> field("difficulty_level"),
         estimated_time |-> field("estimated_time"),
         visual_elements |-> field("visual_elements"),
         structured_content |-> field("structured_content"),
         assessment_items |-> field("assessment_items"),
         compliance_markers |-> field("compliance_markers"),
         slide_layout_type |-> field("slide_layout_type")]

\* mutant of reaches_outer_handler: the outer try starts after the title
reaches_outer_handler_after_title(step) == step \in CoreSteps \ { "title" }

\* extractor.py:124 and 209: the exceptions the outer handler catches
reaches_outer_handler(step) == step \in CoreSteps

ExtractInit ==
    /\ FormatIdle
    /\ SanitizeIdle
    /\ CreateIdle
    /\ AssistIdle
    /\ ProcessIdle
    /\ DetectIdle
    /\ PipelineIdle
    /\ ex_presentation \in RawPresentations(MaxRawSlides)
    /\ ex_slides_data = << >>
    /\ ex_pc = "extracting"

\* extractor.py:116-118: one iteration of the loop of extract(), with the
\* _extract_slide call of extractor.py:122-249
ExtractSlide ==
    /\ ex_pc = "extracting"
    /\ Len(ex_slides_data) < Len(ex_presentation)
    /\ LET slide_num == Len(ex_slides_data) + 1
           raw == ex_presentation[slide_num]
       IN  IF raw.fault \notin CoreSteps
           THEN /\ ex_slides_data' = Append(ex_slides_data, Extracted(raw, slide_num))
                /\ ex_pc' = "extracting"
           ELSE IF reaches_outer_handler(raw.fault)
                THEN /\ ex_slides_data' = Append(ex_slides_data, Placeholder(slide_num))
                     /\ ex_pc' = "extracting"
                ELSE \* the exception leaves _extract_slide and extract()
                     /\ ex_pc' = "raised"
                     /\ UNCHANGED ex_slides_data
    /\ UNCHANGED << ex_presentation, outsideExtract >>

\* extractor.py:120
ExtractReturn ==
    /\ ex_pc = "extracting"
    /\ Len(ex_slides_data) = Len(ex_presentation)
    /\ ex_pc' = "returned"
    /\ UNCHANGED << ex_presentation, ex_slides_data, outsideExtract >>

ExtractNext ==
    \/ ExtractSlide
    \/ ExtractReturn

ExtractSpec == ExtractInit /\ [][ExtractNext]_vars

-----------------------------------------------------------------------------
(* IntelligentPPTXExtractor.extract_all_slides: the annotation of each slide
   by the external service, with the heuristic fallback *)

\* intelligent_extractor.py:280-281
ModuleKeywords ==
    { <<"m","o","d","u","l","e">>,
      <<"s","e","c","t","i","o","n">>,
      <<"c","h","a","p","t","e","r">>,
      <<"o","v","e","r","v","i","e","w">>,
      <<"i","n","t","r","o","d","u","c","t","i","o","n">> }

\* intelligent_extractor.py:284
DemoKeywords ==
    { <<"d","e","m","o">>,
      <<"d","e","m","o","n","s","t","r","a","t","i","o","n">> }

\* intelligent_extractor.py:286
LabKeywords ==
    { <<"l","a","b">>,
      <<"e","x","e","r","c","i","s","e">>,
      <<"h","a","n","d","s","-","o","n">> }

\* intelligent_extractor.py:288
AssessmentKeywords ==
    { <<"q","u","i","z">>,
      <<"t","e","s","t">>,
      <<"a","s","s","e","s","s","m","e","n","t">> }

\* f"Slide with {n} text items"
TextItemsSummary(n) ==
    <<"S","l","i","d","e"," ","w","i","t","h"," ">> \o DecStr(n) \o <<" ","t","e","x","t"," ","i","t","e","m","s">>

\* intelligent_extractor.py:275-303
fallback_structure_detection(slide_content) ==
    LET title == lower(slide_content.title)
        is_module_start == \E keyword \in ModuleKeywords : Contains(title, keyword)
    IN  [is_module_start |-> is_module_start,
         module_title |-> IF is_module_start THEN slide_content.title ELSE << >>,
         learning_objectives |-> << >>,
         prerequisites |-> << >>,
         activity_type |->
             IF \E keyword \in DemoKeywords : Contains(title, keyword) THEN "demo"
             ELSE IF \E keyword \in LabKeywords : Contains(title, keyword) THEN "lab"
             ELSE IF \E keyword \in AssessmentKeywords : Contains(title, keyword)
                  THEN "assessment"
             ELSE "lecture",
         difficulty_level |-> "intermediate",
         estimated_time_minutes |-> 3,
         instructional_notes |-> "Fallback detection used",
         content_summary |-> TextItemsSummary(Len(slide_content.text_content))]

\* result.get(key, default) on the parsed JSON object
Get(result, key, default) == IF key \in DOMAIN result THEN result[key] ELSE default

\* intelligent_extractor.py:259-269: the structure built from a parsed JSON
\* object
structure_from_result(slide_content, result) ==
    [is_module_start |-> Get(result, "is_module_start", FALSE),
     module_title |-> IF Get(result, "is_module_start", FALSE)
                      THEN slide_content.title ELSE << >>,
     learning_objectives |-> Get(result, "learning_objectives", << >>),
     prerequisites |-> Get(result, "prerequisites", << >>),
     activity_type |-> Get(result, "activity_type", None),
     difficulty_level |-> Get(result, "difficulty_level", "beginner"),
     estimated_time_minutes |-> Get(result, "estimated_time_minutes", 2),
     instructional_notes |-> "LLM analysis completed",
     content_summary |-> Get(result, "content_summary", << >>)]

\* the outcomes of one annotation call that end in the except branch
\* (intelligent_extractor.py:271-273): the request raises (service error,
\* timeout), json.loads raises (malformed JSON), result.get raises (the
\* response is valid JSON but not an object)
FailureOutcomes ==
    { [kind |-> "service_error"], [kind |-> "timeout"],
      [kind |-> "malformed_json"], [kind |-> "not_an_object"] }

\* the JSON objects the service answers with: one with every key of the
\* prompt, the empty object, and one whose difficulty_level and
\* estimated_time_minutes are outside the ranges the prompt asks for
ServiceResults ==
    { [is_module_start |-> TRUE, learning_objectives |-> << "Deploy" >>,
       prerequisites |-> << "Git" >>, activity_type |-> "overview",
       difficulty_level |-> "advanced", estimated_time_minutes |-> 10,
       content_summary |-> <<"s">>],
      [k \in {} |-> << >>],
      [difficulty_level |-> "expert", estimated_time_minutes |-> -5] }

ServiceOutcomes ==
    FailureOutcomes \cup { [kind |-> "json_object", result |-> r] : r \in ServiceResults }

\* intelligent_extractor.py:234-273
infer_instructional_structure(slide_content, outcome) ==
    IF outcome.kind = "json_object"
    THEN structure_from_result(slide_content, outcome.result)
    ELSE fallback_structure_detection(slide_content)

\* mutant of client_after_inference: a failed call disables the client
client_after_inference_disabling(client, outcome) ==
    IF outcome.kind = "json_object" THEN client ELSE None

\* intelligent_extractor.py:234-273: _infer_instructional_structure does
\* not assign self.client
client_after_inference(client, outcome) == client

\* the titles of the slides: none, one with a module keyword and one with a
\* demo and a lab keyword
AssistTitles ==
    { << >>, <<"M","o","d","u","l","e"," ","1">>, <<"D","e","m","o"," ","L","a","b">> }

\* intelligent_extractor.py:163-176: the SlideContent of slide n
SlideContentAt(n, title) ==
    [slide_number |-> n, title |-> title,
     text_content |-> IF title = << >> THEN << >> ELSE << <<"x">> >>,
     speaker_notes |-> << >>]

RECURSIVE SlideContents(_)
SlideContents(n) ==
    IF n = 0 THEN { << >> }
    ELSE LET shorter == SlideContents(n - 1)
         IN  shorter \cup
             { Append(p, SlideContentAt(n, title)) :
                 p \in { q \in shorter : Len(q) = n - 1 }, title \in AssistTitles }

\* the slide was annotated without a call to the service
NotSent == [kind |-> "not_sent"]

\* state after IntelligentPPTXExtractor(pptx_path, use_llm), when
\* extract_all_slides is entered (intelligent_extractor.py:53-69): the
\* client exists only if use_llm is set and an API key is configured
AssistInit ==
    /\ FormatIdle
    /\ SanitizeIdle
    /\ CreateIdle
    /\ ExtractIdle
    /\ ProcessIdle
    /\ DetectIdle
    /\ PipelineIdle
    /\ ie_use_llm \in BOOLEAN
    /\ ie_client \in (IF ie_use_llm THEN { "OpenAI", None } ELSE { None })
    /\ ie_contents \in SlideContents(MaxAssistSlides)
    /\ ie_slides = << >>
    /\ ie_pc = "extracting"
    /\ ie_sent = << >>
    /\ ie_outcomes = << >>

\* intelligent_extractor.py:71-86: one iteration of the loop of
\* extract_all_slides
AnnotateSlide ==
    /\ ie_pc = "extracting"
    /\ Len(ie_slides) < Len(ie_contents)
    /\ LET slide_content == ie_contents[Len(ie_slides) + 1]
       IN  IF ie_use_llm /\ ie_client # None
           THEN \E outcome \in ServiceOutcomes :
                   /\ ie_slides' = Append(ie_slides,
                          [content |-> slide_content,
                           structure |-> infer_instructional_structure(slide_content,
                                                                       outcome)])
                   /\ ie_sent' = Append(ie_sent, slide_content.slide_number)
                   /\ ie_outcomes' = Append(ie_outcomes, outcome)
                   /\ ie_client' = client_after_inference(ie_client, outcome)
           ELSE /\ ie_slides' = Append(ie_slides,
                       [content |-> slide_content,
                        structure |-> fallback_structure_detection(slide_content)])
                /\ ie_outcomes' = Append(ie_outcomes, NotSent)
                /\ UNCHANGED << ie_sent, ie_client >>
    /\ UNCHANGED << ie_use_llm, ie_contents, ie_pc, outsideAssist >>

\* intelligent_extractor.py:88
ExtractAllReturn ==
    /\ ie_pc = "extracting"
    /\ Len(ie_slides) = Len(ie_contents)
    /\ ie_pc' = "returned"
    /\ UNCHANGED << ie_use_llm, ie_client, ie_contents, ie_slides, ie_sent,
                    ie_outcomes, outsideAssist >>

AssistNext ==
    \/ AnnotateSlide
    \/ ExtractAllReturn

AssistSpec == AssistInit /\ [][AssistNext]_vars

-----------------------------------------------------------------------------
(* _process_files: the per-file try / except / finally of the batch loop *)

\* the name of the i-th file of the list
DeckName(i) == <<"d","e","c","k">> \o DecStr(i)

\* the lists _discover_files returns: sorted, distinct paths (shred.py:122)
FileLists == { [i \in 1..n |-> DeckName(i)] : n \in 0..MaxFiles }

ProcessInit ==
    /\ FormatIdle
    /\ SanitizeIdle
    /\ CreateIdle
    /\ ExtractIdle
    /\ AssistIdle
    /\ DetectIdle
    /\ PipelineIdle
    /\ pf_files \in FileLists
    /\ pf_index = 0
    /\ pf_pc = "loop"
    /\ pf_main_progress = 0
    /\ pf_attempted = << >>
    /\ pf_failed = << >>
    /\ pf_succeeded = << >>

\* shred.py:169-170: the for loop takes the next file and adds its task
StartFile ==
    /\ pf_pc = "loop"
    /\ pf_index < Len(pf_files)
    /\ pf_index' = pf_index + 1
    /\ pf_attempted' = Append(pf_attempted, pf_files[pf_index + 1])
    /\ pf_pc' = "extract"
    /\ UNCHANGED << pf_files, pf_main_progress, pf_failed, pf_succeeded,
                    outsideProcess >>

\* a step of the try block returns, or raises an Exception
StepOutcomes == { "returns", "raises" }

\* shred.py:173-180: extraction
ExtractFile ==
    /\ pf_pc = "extract"
    /\ \E outcome \in StepOutcomes :
          pf_pc' = IF outcome = "returns" THEN "format" ELSE "except"
    /\ UNCHANGED << pf_files, pf_index, pf_main_progress, pf_attempted,
                    pf_failed, pf_succeeded, outsideProcess >>

\* shred.py:182-186: formatting
FormatFile ==
    /\ pf_pc = "format"
    /\ \E outcome \in StepOutcomes :
          pf_pc' = IF outcome = "returns" THEN "write" ELSE "except"
    /\ UNCHANGED << pf_files, pf_index, pf_main_progress, pf_attempted,
                    pf_failed, pf_succeeded, outsideProcess >>

\* shred.py:188-203: writing, then the success message
WriteFile ==
    /\ pf_pc = "write"
    /\ \E outcome \in StepOutcomes :
          IF outcome = "returns"
          THEN /\ pf_succeeded' = Append(pf_succeeded, pf_files[pf_index])
               /\ pf_pc' = "finally"
          ELSE /\ pf_pc' = "except"
               /\ UNCHANGED pf_succeeded
    /\ UNCHANGED << pf_files, pf_index, pf_main_progress, pf_attempted,
                    pf_failed, outsideProcess >>

\* shred.py:205-210: the failure is reported for the file, then continue
HandleException ==
    /\ pf_pc = "except"
    /\ pf_failed' = Append(pf_failed, pf_files[pf_index])
    /\ pf_pc' = "finally"
    /\ UNCHANGED << pf_files, pf_index, pf_main_progress, pf_attempted,
                    pf_succeeded, outsideProcess >>

\* mutant of after_finally: a failed file ends the loop
after_finally_break(failed) == IF failed THEN "summary" ELSE "loop"

\* shred.py:210-213: after continue, or after the try block, the finally
\* clause runs and the loop goes on
after_finally(failed) == "loop"

\* shred.py:212-213
Finally ==
    /\ pf_pc = "finally"
    /\ pf_main_progress' = pf_main_progress + 1
    /\ pf_pc' = after_finally(/\ pf_failed # << >>
                              /\ pf_failed[Len(pf_failed)] = pf_files[pf_index])
    /\ UNCHANGED << pf_files, pf_index, pf_attempted, pf_failed, pf_succeeded,
                    outsideProcess >>

\* shred.py:169: the list is exhausted
EndLoop ==
    /\ pf_pc = "loop"
    /\ pf_index = Len(pf_files)
    /\ pf_pc' = "summary"
    /\ UNCHANGED << pf_files, pf_index, pf_main_progress, pf_attempted,
                    pf_failed, pf_succeeded, outsideProcess >>

\* shred.py:215-217
ShowCompletionSummary ==
    /\ pf_pc = "summary"
    /\ pf_pc' = "done"
    /\ UNCHANGED << pf_files, pf_index, pf_main_progress, pf_attempted,
                    pf_failed, pf_succeeded, outsideProcess >>

ProcessNext ==
    \/ StartFile
    \/ ExtractFile
    \/ FormatFile
    \/ WriteFile
    \/ HandleException
    \/ Finally
    \/ EndLoop
    \/ ShowCompletionSummary

\* _process_files is one sequential function: while a step is enabled the
\* interpreter executes it
ProcessSpec == ProcessInit /\ [][ProcessNext]_vars /\ WF_vars(ProcessNext)

-----------------------------------------------------------------------------
(* PPTXExtractor._is_module_start, extractor.py:375-413 *)
\* extractor.py:45-50
MODULE_MARKERS ==
    { <<"m","o","d","u","l","e">>,
      <<"s","e","c","t","i","o","n">>,
      <<"c","h","a","p","t","e","r">>,
      <<"u","n","i","t">>,
      <<"l","e","s","s","o","n">>,
      <<"p","a","r","t">>,
      <<"t","o","p","i","c">>,
      <<"a","g","e","n","d","a">>,
      <<"o","v","e","r","v","i","e","w">>,
      <<"p","h","a","s","e">>,
      <<"s","t","e","p">>,
      <<"s","t","a","g","e">>,
      <<"m","i","l","e","s","t","o","n","e">>,
      <<"o","b","j","e","c","t","i","v","e">>,
      <<"d","e","m","o">>,
      <<"w","o","r","k","s","h","o","p">>,
      <<"s","e","s","s","i","o","n">>,
      <<"l","a","b">>,
      <<"e","x","e","r","c","i","s","e">>,
      <<"h","a","n","d","s","-","o","n">>,
      <<"p","r","a","c","t","i","c","e">>,
      <<"a","c","t","i","v","i","t","y">>,
      <<"s","c","e","n","a","r","i","o">>,
      <<"c","a","s","e"," ","s","t","u","d","y">>,
      <<"w","a","l","k","t","h","r","o","u","g","h">>,
      <<"t","u","t","o","r","i","a","l">>,
      <<"d","e","e","p"," ","d","i","v","e">>,
      <<"c","h","e","c","k","p","o","i","n","t">> }
\* extractor.py:54-55: the alternation (?:module|...|step)
NumberedKeywords ==
    { <<"m","o","d","u","l","e">>,
      <<"s","e","c","t","i","o","n">>,
      <<"c","h","a","p","t","e","r">>,
      <<"u","n","i","t">>,
      <<"l","e","s","s","o","n">>,
      <<"p","a","r","t">>,
      <<"t","o","p","i","c">>,
      <<"p","h","a","s","e">>,
      <<"s","t","e","p">> }
\* extractor.py:393-397
module_content_indicators ==
    { <<"l","e","a","r","n","i","n","g"," ","o","b","j","e","c","t","i","v","e","s">>,
      <<"w","h","a","t"," ","y","o","u"," ","w","i","l","l"," ","l","e","a","r","n">>,
      <<"i","n"," ","t","h","i","s"," ","m","o","d","u","l","e">>,
      <<"m","o","d","u","l","e"," ","o","v","e","r","v","i","e","w">>,
      <<"o","b","j","e","c","t","i","v","e","s",":">>,
      <<"g","o","a","l","s",":">>,
      <<"b","y"," ","t","h","e"," ","e","n","d">>,
      <<"a","f","t","e","r"," ","c","o","m","p","l","e","t","i","n","g">>,
      <<"y","o","u"," ","w","i","l","l"," ","b","e"," ","a","b","l","e">>,
      <<"a","g","e","n","d","a">>,
      <<"o","u","t","l","i","n","e">>,
      <<"t","o","p","i","c","s"," ","c","o","v","e","r","e","d">> }
\* the word occurs in s from index i on
MatchAt(s, i, word) ==
    i >= 1 /\ i + Len(word) - 1 <= Len(s) /\ SubSeq(s, i, i + Len(word) - 1) = word

\* the index after the whitespace run that starts at i (\s*)
SkipSpaces(s, i) ==
    LET stops == { j \in i..(Len(s) + 1) : j > Len(s) \/ s[j] \notin SpaceChars }
    IN  CHOOSE j \in stops : \A k \in stops : j <= k

IsDigit(s, i) == i >= 1 /\ i <= Len(s) /\ s[i] \in Range(DigitChars)

\* re.search(r'(?:<words>)\s*\d+', s) when min_spaces = 0 and
\* re.search(r'(?:<words>)\s+\d+', s) when min_spaces = 1
KeywordThenNumber(s, words, min_spaces) ==
    \E word \in words, i \in 1..Len(s) :
        /\ MatchAt(s, i, word)
        /\ LET j == SkipSpaces(s, i + Len(word))
           IN  j - (i + Len(word)) >= min_spaces /\ IsDigit(s, j)

\* re.search(r'\d+\.\s*(?:<words>)', s)
NumberThenKeyword(s, words) ==
    \E word \in words, i \in 1..Len(s) :
        /\ IsDigit(s, i)
        /\ i + 1 <= Len(s) /\ s[i + 1] = "."
        /\ MatchAt(s, SkipSpaces(s, i + 2), word)

\* re.search(r'(?:step|phase)\s+[ivx]+', s)
KeywordThenRoman(s) ==
    \E word \in { <<"s","t","e","p">>, <<"p","h","a","s","e">> }, i \in 1..Len(s) :
        /\ MatchAt(s, i, word)
        /\ LET j == SkipSpaces(s, i + Len(word))
           IN  j > i + Len(word) /\ j <= Len(s) /\ s[j] \in {"i", "v", "x"}

\* re.search(r'^\d+[\.\)]\s+', s)
NumberedItem(s) ==
    \E n \in 1..Len(s) :
        /\ \A i \in 1..n : IsDigit(s, i)
        /\ n + 2 <= Len(s)
        /\ s[n + 1] \in {".", ")"}
        /\ s[n + 2] \in SpaceChars

\* extractor.py:53-58: some pattern of MODULE_NUMBER_PATTERNS is found
MODULE_NUMBER_PATTERNS(s) ==
    \/ KeywordThenNumber(s, NumberedKeywords, 0)
    \/ NumberThenKeyword(s, NumberedKeywords)
    \/ KeywordThenRoman(s)
    \/ NumberedItem(s)

\* re.search(r'wrap.?up', s)
WrapUp(s) ==
    \E i \in 1..Len(s) :
        /\ MatchAt(s, i, <<"w","r","a","p">>)
        /\ \/ MatchAt(s, i + 4, <<"u","p">>)
           \/ MatchAt(s, i + 5, <<"u","p">>)

\* extractor.py:404-408: some pattern of section_patterns is found
section_patterns(s) ==
    \/ KeywordThenNumber(s, { <<"p","a","r","t">>,
                              <<"s","e","c","t","i","o","n">>,
                              <<"c","h","a","p","t","e","r">> }, 1)
    \/ Contains(s, <<"i","n","t","r","o","d","u","c","t","i","o","n">>)
    \/ Contains(s, <<"g","e","t","t","i","n","g"," ","s","t","a","r","t","e","d">>)
    \/ Contains(s, <<"o","v","e","r","v","i","e","w">>)
    \/ Contains(s, <<"c","o","n","c","l","u","s","i","o","n">>)
    \/ Contains(s, <<"s","u","m","m","a","r","y">>)
    \/ WrapUp(s)

\* ' '.join(content)
RECURSIVE JoinWithSpace(_)
JoinWithSpace(items) ==
    IF items = << >> THEN << >>
    ELSE IF Len(items) = 1 THEN items[1]
    ELSE items[1] \o << " " >> \o JoinWithSpace(Tail(items))

\* len(s.split()): the number of whitespace-separated words of s
WordCount(s) ==
    Cardinality({ i \in 1..Len(s) :
                    /\ s[i] \notin SpaceChars
                    /\ (i = 1 \/ s[i - 1] \in SpaceChars) })

\* extractor.py:403: the limits of the section-divider case
SectionDividerWords == 5

SectionDividerTextLength == 100

\* extractor.py:375-413
is_module_start(title, content) ==
    IF title = << >> THEN FALSE
    ELSE LET title_lower == Strip(lower(title), SpaceChars)
             all_text    == lower(JoinWithSpace(content))
         IN  \/ \E marker \in MODULE_MARKERS : Contains(title_lower, marker)
             \/ MODULE_NUMBER_PATTERNS(title_lower)
             \/ \E indicator \in module_content_indicators :
                   Contains(all_text, indicator)
             \/ /\ WordCount(title_lower) <= SectionDividerWords
                /\ Len(all_text) < SectionDividerTextLength
                /\ section_patterns(title_lower)

\* the titles of the calls: none, the activity titles of the tests
\* (test_extractor.py:84-97), titles with and without a marker
ActivityTitles ==
    { <<"L","a","b",":"," ","H","a","n","d","s","-","o","n"," ","E","x","e","r","c","i","s","e">>,
      <<"L","a","b",":"," ","C","r","e","a","t","e"," ","A","z","u","r","e"," ","A","c","c","o","u","n","t">> }

DetectTitles ==
    { << >> } \cup ActivityTitles \cup
    { <<"R","e","g","u","l","a","r"," ","S","l","i","d","e"," ","T","i","t","l","e">>,
      <<"M","o","d","u","l","e"," ","1",":"," ","I","n","t","r","o","d","u","c","t","i","o","n">>,
      <<"1","."," ","W","e","l","c","o","m","e">>,
      <<"S","u","m","m","a","r","y">>,
      <<"W","r","a","p","-","u","p">>,
      <<"S","y","l","l","a","b","u","s">>,
      <<"K","e","y"," ","T","a","k","e","a","w","a","y","s">> }

\* the content lists of the calls: empty, short bodies, a body with a module
\* indicator and a body of 100 characters
DetectContents ==
    { << >>,
      << <<"x">> >>,
      << <<"a">>, <<"b">> >>,
      << <<"G","o","a","l","s",":"," ","d","e","p","l","o","y">> >>,
      << <<"T","o","p","i","c","s"," ","c","o","v","e","r","e","d">> >>,
      << Repeat("x", SectionDividerTextLength) >> }

-----------------------------------------------------------------------------
(* State machine of one _is_module_start call *)

DetectInit ==
    /\ FormatIdle
    /\ SanitizeIdle
    /\ CreateIdle
    /\ ExtractIdle
    /\ AssistIdle
    /\ ProcessIdle
    /\ PipelineIdle
    /\ ms_title \in DetectTitles
    /\ ms_content \in DetectContents
    /\ ms_result = FALSE
    /\ ms_pc = "called"

\* extractor.py:375-413
IsModuleStart ==
    /\ ms_pc = "called"
    /\ ms_result' = is_module_start(ms_title, ms_content)
    /\ ms_pc' = "returned"
    /\ UNCHANGED << ms_title, ms_content, outsideDetect >>

DetectNext == IsModuleStart

DetectSpec == DetectInit /\ [][DetectNext]_vars

-----------------------------------------------------------------------------
(* The formatting of one presentation by _process_files (shred.py:181-185):
   IntelligentMarkdownFormatter.format, intelligent_formatter.py:29-50 *)

MaxPipelineSlides == 3

\* the values of --chunk-size: a budget two slides overflow, and the default
PipelineChunkSizes == { 3, DefaultChunkSize }

\* intelligent_extractor.py:82-85: the slide dicts extract_all_slides can
\* return for slide n, annotated by the heuristic or from a complete answer
\* of the service
AnnotatedSlides(n) ==
    UNION { { [content |-> SlideContentAt(n, title),
               structure |-> fallback_structure_detection(SlideContentAt(n, title))],
              [content |-> SlideContentAt(n, title),
               structure |-> structure_from_result(SlideContentAt(n, title), result)] } :
            title \in AssistTitles,
            result \in { r \in ServiceResults : "is_module_start" \in DOMAIN r } }

RECURSIVE AnnotatedPresentations(_)
AnnotatedPresentations(n) ==
    IF n = 0 THEN { << >> }
    ELSE LET shorter == AnnotatedPresentations(n - 1)
         IN  shorter \cup
             { Append(p, s) : p \in { q \in shorter : Len(q) = n - 1 },
                              s \in AnnotatedSlides(n) }

\* intelligent_formatter.py:86-101
create_module_id(title) ==
    IF title = << >> THEN Untitled
    ELSE LET low    == lower(title)
             kept   == KeepChars(low, WordChars \cup SpaceChars \cup {"-"})
             joined == Strip(CollapseRuns(kept, SpaceChars \cup {"-"}, "-"), {"-"})
             clean  == IF Len(joined) > MaxSlugLength
                       THEN RStrip(SliceTo(joined, MaxSlugLength), {"-"}) ELSE joined
         IN  IF clean = << >> THEN Untitled ELSE clean

\* intelligent_formatter.py:54-79: the locals of _group_slides_into_modules
\* after its loop has read the first k slides
RECURSIVE group_pass(_, _)
group_pass(slides_data_, k) ==
    IF k = 0
    THEN [modules |-> << >>,
          current_module |-> [module_id |-> Pad2(1) \o << "-" >> \o lower(Introduction),
                              module_title |-> Introduction,
                              slides |-> << >>],
          module_counter |-> 1]
    ELSE LET before     == group_pass(slides_data_, k - 1)
             slide_data == slides_data_[k]
             structure  == slide_data.structure
             counter    == before.module_counter + 1
         IN  IF structure.is_module_start /\ before.current_module.slides # << >>
             THEN [modules |-> Append(before.modules, before.current_module),
                   current_module |->
                       [module_id |-> Pad2(counter) \o << "-" >>
                                          \o create_module_id(structure.module_title),
                        module_title |-> IF structure.module_title # << >>
                                         THEN structure.module_title
                                         ELSE ModuleTitle(counter),
                        slides |-> << slide_data >>],
                   module_counter |-> counter]
             ELSE [before EXCEPT !.current_module.slides = Append(@, slide_data)]

\* intelligent_formatter.py:52-84
group_slides_into_modules(slides_data_) ==
    LET last == group_pass(slides_data_, Len(slides_data_))
    IN  IF last.current_module.slides # << >>
        THEN Append(last.modules, last.current_module)
        ELSE last.modules

\* intelligent_formatter.py:103-166: one chunk per module, whatever its size
\* ("can enhance with token-based splitting later"); of the metadata, the
\* slide range and the slide count
create_module_chunks(module) ==
    LET slides == module.slides
    IN  IF slides = << >> THEN << >>
        ELSE LET slide_range == << slides[1].content.slide_number,
                                   slides[Len(slides)].content.slide_number >>
             IN  << [module_id |-> module.module_id,
                     module_title |-> module.module_title,
                     slide_range |-> slide_range,
                     metadata |-> [slide_range |-> slide_range,
                                   total_slides |-> Len(slides)]] >>

PipelineInit ==
    /\ FormatIdle
    /\ SanitizeIdle
    /\ CreateIdle
    /\ ExtractIdle
    /\ AssistIdle
    /\ ProcessIdle
    /\ DetectIdle
    /\ pl_strategy \in Strategies
    /\ pl_chunk_size \in PipelineChunkSizes
    /\ pl_slides_data \in AnnotatedPresentations(MaxPipelineSlides)
    /\ pl_stem = DeckName(1)
    /\ pl_chunks = << >>
    /\ pl_markdown_files = NoFiles
    /\ pl_pc = "extracted"

\* shred.py:183-184 and intelligent_formatter.py:29-38: the formatter is built
\* from chunk_size alone and format() makes the chunks of every module
PipelineFormat ==
    /\ pl_pc = "extracted"
    /\ LET modules == group_slides_into_modules(pl_slides_data)
       IN  pl_chunks' = Flatten([i \in 1..Len(modules) |->
                                    create_module_chunks(modules[i])])
    /\ pl_pc' = "rendering"
    /\ UNCHANGED << pl_strategy, pl_chunk_size, pl_slides_data, pl_stem,
                    pl_markdown_files, outsidePipeline >>

\* the chunks format() has rendered so far
PipelineRendered ==
    { i \in 1..Len(pl_chunks) : "chunk_index" \in DOMAIN pl_chunks[i].metadata }

\* intelligent_formatter.py:42-48: one iteration of the rendering loop
PipelineRender ==
    /\ pl_pc = "rendering"
    /\ Cardinality(PipelineRendered) < Len(pl_chunks)
    /\ LET i        == Cardinality(PipelineRendered) + 1
           chunk    == pl_chunks[i]
           metadata == [k \in DOMAIN chunk.metadata \cup {"chunk_index", "total_chunks"} |->
                           IF k = "chunk_index" THEN i
                           ELSE IF k = "total_chunks" THEN Len(pl_chunks)
                           ELSE chunk.metadata[k]]
           fn       == pl_stem \o << "_" >> \o chunk.module_id \o DefaultExt
           doc      == [module_id |-> chunk.module_id,
                        module_title |-> chunk.module_title,
                        slide_range |-> chunk.slide_range,
                        chunk_index |-> metadata["chunk_index"],
                        total_chunks |-> metadata["total_chunks"]]
       IN  /\ pl_chunks' = [pl_chunks EXCEPT ![i].metadata = metadata]
           /\ pl_markdown_files' =
                  [f \in DOMAIN pl_markdown_files \cup {fn} |->
                      IF f = fn THEN doc ELSE pl_markdown_files[f]]
    /\ UNCHANGED << pl_strategy, pl_chunk_size, pl_slides_data, pl_stem, pl_pc,
                    outsidePipeline >>

\* intelligent_formatter.py:50 and shred.py:185
PipelineReturn ==
    /\ pl_pc = "rendering"
    /\ Cardinality(PipelineRendered) = Len(pl_chunks)
    /\ pl_pc' = "done"
    /\ UNCHANGED << pl_strategy, pl_chunk_size, pl_slides_data, pl_stem, pl_chunks,
                    pl_markdown_files, outsidePipeline >>

PipelineNext ==
    \/ PipelineFormat
    \/ PipelineRender
    \/ PipelineReturn

PipelineSpec == PipelineInit /\ [][PipelineNext]_vars

-----------------------------------------------------------------------------
(* Properties *)

\* the chunking pass of format() has returned
ChunkingDone == pc \in {"rendering", "done"}

\* the slide records a _create_chunk call received
SlidesOf(call) == [i \in 1..Len(call) |-> slides_data[call[i]]]

\* the slide alone is estimated above the budget
Oversized(slide) == estimate_chunk_tokens(<< slide >>) > chunk_size

\* C1 - Partition law: for every strategy and chunk_size, the groups handed
\* to _create_chunk, in order, are the slides 1..n exactly once each and in
\* order; each chunk's slide_range is (first, last) of its group, the first
\* range starts at 1, the last ends at n and each range starts at the
\* previous end + 1.
C1_PartitionLaw ==
    ChunkingDone =>
        LET n == Len(slides_data)
        IN  /\ Len(chunks) = Len(create_calls)
            /\ Flatten(create_calls) = [i \in 1..n |-> i]
            /\ \A i \in 1..Len(chunks) :
                  /\ create_calls[i] # << >>
                  /\ chunks[i].slide_range[1] = create_calls[i][1]
                  /\ chunks[i].slide_range[2] = create_calls[i][Len(create_calls[i])]
                  /\ chunks[i].slide_range[1] <= chunks[i].slide_range[2]
            /\ n > 0 => /\ chunks # << >>
                        /\ chunks[1].slide_range[1] = 1
                        /\ chunks[Len(chunks)].slide_range[2] = n
            /\ \A i \in 2..Len(chunks) :
                  chunks[i].slide_range[1] = chunks[i - 1].slide_range[2] + 1

\* an instructional pass over three or more slides that broke a group early
C1_Witness ==
    /\ pc = "done" /\ strategy = "instructional"
    /\ Len(slides_data) >= 3 /\ Len(chunks) >= 2
    /\ \E i \in 1..Len(chunks) :
          StartsWith(chunks[i].module_title, <<"M","o","d","u","l","e"," ">>)
          /\ chunks[i].module_title[Len(chunks[i].module_title)] = ")"

\* C2 - Non-empty law: every call of _create_chunk in a chunking pass
\* receives a non-empty slide list, the ValueError of the empty group is never
\* raised, and an empty input yields no chunk and no call.
C2_NonEmptyLaw ==
    /\ pc # "raised"
    /\ \A i \in 1..Len(create_calls) : create_calls[i] # << >>
    /\ (ChunkingDone /\ slides_data = << >>) => (chunks = << >> /\ create_calls = << >>)

\* an instructional pass whose first slide alone exceeds the budget
C2_Witness ==
    /\ pc = "done" /\ strategy = "instructional"
    /\ slides_data # << >> /\ Oversized(slides_data[1])
    /\ create_calls[1] = << 1 >>

\* C3 - in the instructional and sequential strategies a slide that alone
\* exceeds chunk_size is the only slide of its chunk.
C3_OversizedSlideAlone ==
    (ChunkingDone /\ strategy \in {"instructional", "sequential"}) =>
        \A i \in 1..Len(create_calls) :
            (\E k \in 1..Len(create_calls[i]) :
                Oversized(slides_data[create_calls[i][k]]))
            => Len(create_calls[i]) = 1

\* C4 - the sequential strategy is greedy: every chunk is the longest run of
\* consecutive slides from its first slide that is estimated within
\* chunk_size, or a single slide that alone exceeds it; the next chunk starts
\* with the slide that overflowed.
C4_SequentialGreedy ==
    (ChunkingDone /\ strategy = "sequential") =>
        \A i \in 1..Len(create_calls) :
            LET call  == create_calls[i]
                first == call[1]
                last  == call[Len(call)]
                fits(m) == estimate_chunk_tokens(SubSeq(slides_data, first, m)) <= chunk_size
            IN  /\ call = [k \in 1..Len(call) |-> first + k - 1]
                /\ \/ Len(call) = 1 /\ Oversized(slides_data[first])
                   \/ /\ fits(last)
                      /\ last < Len(slides_data) => ~fits(last + 1)
                /\ i < Len(create_calls) => create_calls[i + 1][1] = last + 1

\* a sequential pass that closed a group of several slides at an overflow
C4_Witness ==
    /\ pc = "done" /\ strategy = "sequential"
    /\ Len(create_calls) >= 2
    /\ Len(create_calls[1]) >= 2

\* C5 - every instructional chunk of more than one slide is estimated at
\* no more than chunk_size tokens.
C5_InstructionalWithinBudget ==
    (ChunkingDone /\ strategy = "instructional") =>
        \A i \in 1..Len(create_calls) :
            Len(create_calls[i]) > 1
            => estimate_chunk_tokens(SlidesOf(create_calls[i])) <= chunk_size

\* C6 - the module-based strategy puts a chunk boundary before slide k >= 2
\* exactly when slide k is a module start, whatever chunk_size is; the number
\* of chunks is 1 + the number of module starts among slides 2..n.
C6_ModuleBoundaries ==
    (ChunkingDone /\ strategy = "module-based" /\ slides_data # << >>) =>
        LET n      == Len(slides_data)
            starts == { k \in 2..n : slides_data[k].is_module_start }
        IN  /\ { chunks[i].slide_range[1] : i \in 1..Len(chunks) } = {1} \cup starts
            /\ Len(chunks) = 1 + Cardinality(starts)

\* a module-based pass with a module start after the first slide and a group
\* above the budget
C6_Witness ==
    /\ pc = "done" /\ strategy = "module-based"
    /\ Len(chunks) >= 2
    /\ \E i \in 1..Len(create_calls) :
          estimate_chunk_tokens(SlidesOf(create_calls[i])) > chunk_size

\* C7 - format() returns one document per chunk: the chunks of one
\* presentation get pairwise distinct filenames, so the mapping has
\* total_chunks entries.
C7_OneDocumentPerChunk ==
    pc = "done" =>
        /\ Cardinality(DOMAIN markdown_files) = Len(chunks)
        /\ \A i, j \in 1..Len(rendered) :
              i # j => rendered[i].filename # rendered[j].filename

\* C8 - Filename safety: the name sanitize_filename returns contains none of
\* < > : " / \ | ? *, is non-empty, is at most 154 characters long and does
\* not start with '.'.
C8_FilenameSafety ==
    sf_pc = "returned" =>
        /\ \A i \in 1..Len(sanitized) : sanitized[i] \notin invalid_chars
        /\ sanitized # << >>
        /\ Len(sanitized) <= 154
        /\ sanitized[1] # "."

\* C9 - the i-th chunk has chunk_index = i and total_chunks = the number of
\* chunks, both set before the chunk is rendered: every rendered document
\* carries these final values.
C9_PositionFields ==
    /\ \A i \in 1..Len(rendered) :
          LET fm == rendered[i].content.frontmatter
          IN  /\ chunks[i].chunk_index = i
              /\ chunks[i].total_chunks = Len(chunks)
              /\ "chunk_index" \in DOMAIN fm /\ fm["chunk_index"] = i
              /\ "total_chunks" \in DOMAIN fm /\ fm["total_chunks"] = Len(chunks)
    /\ pc = "done" => Len(rendered) = Len(chunks)

\* format() has returned several documents
C9_Witness == pc = "done" /\ Len(rendered) >= 3

\* C10 - Round trip: the front-matter rendered for a finalized chunk holds
\* module_id, slide_range, chunk_index and total_chunks with the values of the
\* chunk; the empty-field filter removes none of them.
C10_FrontMatterRoundTrip ==
    \A i \in 1..Len(rendered) :
        LET fm == rendered[i].content.frontmatter
        IN  /\ {"module_id", "slide_range", "chunk_index", "total_chunks"} \subseteq DOMAIN fm
            /\ fm["module_id"] = chunks[i].module_id
            /\ fm["slide_range"] = chunks[i].slide_range
            /\ fm["chunk_index"] = chunks[i].chunk_index
            /\ fm["total_chunks"] = chunks[i].total_chunks

\* a document rendered for a chunk without activity type (a key the filter
\* does remove) next to the four keys it keeps
C10_Witness ==
    /\ pc = "done"
    /\ \E i \in 1..Len(rendered) :
          /\ "activity_type" \notin DOMAIN rendered[i].content.frontmatter
          /\ chunks[i].slide_range = << 1, 1 >>
          /\ Len(chunks) >= 2

\* two chunks were produced under the same module title
SameTitleTwice ==
    \E i, j \in 1..Len(chunks) :
        i # j /\ chunks[i].module_title = chunks[j].module_title

\* a chunk's title has an empty slug: its id is the padded number and "-"
EmptySlugChunk ==
    \E i \in 1..Len(chunks) :
        chunks[i].module_id = SubSeq(chunks[i].module_id, 1, 2) \o << "-" >>

\* an early break gave a chunk a "(Continued)" title
ContinuedChunk ==
    \E i \in 1..Len(chunks), n \in 1..(MaxModuleIdSlides + 2) :
        chunks[i].module_title = ContinuedTitle(n)

\* C11 - The module_ids of the chunks produced by one chunking pass are
\* pairwise distinct, for every strategy, also when two chunks have the same
\* title, when a title's slug is empty and when early breaks create
\* "(Continued)" chunks.
C11_DistinctModuleIds ==
    ChunkingDone =>
        \A i, j \in 1..Len(chunks) :
            i # j => chunks[i].module_id # chunks[j].module_id

\* a pass that produced two chunks of the same title, a chunk with an empty
\* slug and a "(Continued)" chunk
C11_Witness ==
    /\ ChunkingDone
    /\ SameTitleTwice
    /\ EmptySlugChunk
    /\ ContinuedChunk

\* the direct _create_chunk call has ended, by a return or by an exception
CreateChunkEnded == cc_pc \in { "ValueError", "IndexError", "returned", "rendered" }

\* the direct _create_chunk call has returned a chunk
CreateChunkReturned == cc_pc \in { "returned", "rendered" }

\* the position of the first occurrence of x in items
FirstIndex(items, x) ==
    CHOOSE i \in DOMAIN items :
        items[i] = x /\ \A j \in DOMAIN items : items[j] = x => i <= j

\* result lists the distinct entries of contributed once each, in the order
\* of their first occurrence
FirstSeenOrder(result, contributed) ==
    /\ \A i, j \in DOMAIN result : i # j => result[i] # result[j]
    /\ Range(result) = Range(contributed)
    /\ \A i, j \in DOMAIN result :
          i < j => FirstIndex(contributed, result[i]) < FirstIndex(contributed, result[j])

\* the entries the slides of the call contribute to a list field, in slide
\* order
Contributed(field) == Flatten([i \in 1..Len(cc_slides) |-> cc_slides[i][field]])

\* C12 - _create_chunk called with an empty slide list raises
\* ValueError('Cannot create chunk from empty slides list') before computing
\* anything and returns no chunk, instead of producing a chunk with default
\* values.
C12_EmptyGroupRaises ==
    (cc_slides = << >> /\ CreateChunkEnded) =>
        /\ cc_pc = "ValueError"
        /\ cc_result = NoChunk
        /\ cc_frontmatter = NoFrontmatter

\* the call with the empty list has raised
C12_Witness == cc_slides = << >> /\ cc_pc = "ValueError"

\* C13 - Dedup law: for any chunk built by _create_chunk, each of
\* learning_objectives, prerequisites and visual_elements_summary has no
\* duplicate entry (exact, case-sensitive match), contains exactly the
\* distinct entries contributed by the group's slides and orders them by
\* first occurrence in slide order.
C13_OrderedDedup ==
    CreateChunkReturned =>
        /\ FirstSeenOrder(cc_result.learning_objectives,
                          Contributed("learning_objectives"))
        /\ FirstSeenOrder(cc_result.prerequisites, Contributed("prerequisites"))
        /\ FirstSeenOrder(cc_result.visual_elements_summary,
                          Flatten([i \in 1..Len(cc_slides) |->
                              [j \in 1..Len(cc_slides[i].visual_elements) |->
                                  cc_slides[i].visual_elements[j].type
                                      \o << ":", " " >>
                                      \o cc_slides[i].visual_elements[j].description]]))

\* objectives repeated within a slide, and differing in letter case, were
\* reduced to two entries; prerequisites repeated across slides were reduced
\* too
C13_Witness ==
    /\ CreateChunkReturned
    /\ Len(Contributed("learning_objectives")) = 3
    /\ cc_result.learning_objectives = << "deploy", "Deploy" >>
    /\ Len(Contributed("prerequisites")) = 3
    /\ cc_result.prerequisites = << "Shell", "Git" >>

\* the position of the first entry of items equal to x up to letter case
FirstIndexIgnoringCase(items, x) ==
    CHOOSE i \in DOMAIN items :
        /\ lower(items[i]) = lower(x)
        /\ \A j \in DOMAIN items : lower(items[j]) = lower(x) => i <= j

\* C14 - For any chunk built by _create_chunk, compliance_markers are the
\* markers of the group's slides concatenated in slide order and
\* deduplicated case-insensitively, keeping the first occurrence: no two
\* entries are equal up to letter case and the order is the first-seen order.
C14_ComplianceFirstSeen ==
    CreateChunkReturned =>
        LET contributed == Contributed("compliance_markers")
            result == cc_result.compliance_markers
        IN  /\ \A i, j \in DOMAIN result :
                  i # j => lower(result[i]) # lower(result[j])
            /\ \A i \in DOMAIN result :
                  result[i] = contributed[FirstIndexIgnoringCase(contributed, result[i])]
            /\ \A i \in DOMAIN contributed :
                  \E j \in DOMAIN result : lower(result[j]) = lower(contributed[i])
            /\ \A i, j \in DOMAIN result :
                  i < j => FirstIndexIgnoringCase(contributed, result[i])
                               < FirstIndexIgnoringCase(contributed, result[j])

\* C15 - The chunk-level activity_type is the activity_type of the first
\* slide of the group, in slide order, whose activity_type is non-null
\* (never a majority vote); it is null if and only if every slide of the
\* group has a null activity_type.
C15_FirstActivityType ==
    CreateChunkReturned =>
        /\ \A i \in 1..Len(cc_slides) :
              ( /\ cc_slides[i].activity_type # None
                /\ \A j \in 1..(i - 1) : cc_slides[j].activity_type = None )
              => cc_result.activity_type = cc_slides[i].activity_type
        /\ cc_result.activity_type = None
              <=> \A i \in 1..Len(cc_slides) : cc_slides[i].activity_type = None

\* the first activity type is in the minority: a vote would choose the other
C15_Witness ==
    /\ CreateChunkReturned
    /\ Len(cc_slides) = 3
    /\ cc_slides[1].activity_type = "demonstration"
    /\ cc_slides[2].activity_type = "hands-on-lab"
    /\ cc_slides[3].activity_type = "hands-on-lab"
    /\ cc_result.activity_type = "demonstration"

\* the number of slides of the call with this difficulty level
LevelCount(level) ==
    Cardinality({ i \in 1..Len(cc_slides) : cc_slides[i].difficulty_level = level })

\* C16 - The chunk-level difficulty_level is the most frequent difficulty
\* among the group's slides; when two or more levels are tied for most
\* frequent, the result is the tied level that occurs first in slide order.
C16_DifficultyMode ==
    CreateChunkReturned =>
        \E i \in 1..Len(cc_slides) :
            /\ cc_result.difficulty_level = cc_slides[i].difficulty_level
            /\ \A j \in 1..Len(cc_slides) :
                  LevelCount(cc_slides[j].difficulty_level)
                      <= LevelCount(cc_slides[i].difficulty_level)
            /\ \A j \in 1..(i - 1) :
                  LevelCount(cc_slides[j].difficulty_level)
                      < LevelCount(cc_slides[i].difficulty_level)

\* the categories in which a slide of the call has a note
NotedCategories ==
    UNION { DOMAIN cc_slides[i].instructor_notes : i \in 1..Len(cc_slides) }

\* C17 - The chunk's instructor_guidance (and the
\* instructor_guidance_categories of the front-matter) contains a category
\* if and only if at least one slide of the group has a note in that
\* category; within each category the notes appear in slide order;
\* categories that end up empty are dropped.
C17_GuidanceCategories ==
    /\ CreateChunkReturned =>
          /\ DOMAIN cc_result.instructor_guidance = NotedCategories
          /\ \A category \in NotedCategories :
                cc_result.instructor_guidance[category] =
                    Flatten([i \in 1..Len(cc_slides) |->
                        IF category \in DOMAIN cc_slides[i].instructor_notes
                        THEN cc_slides[i].instructor_notes[category] ELSE << >>])
    /\ cc_pc = "rendered" =>
          IF NotedCategories = {}
          THEN "instructor_guidance_categories" \notin DOMAIN cc_frontmatter
          ELSE /\ "instructor_guidance_categories" \in DOMAIN cc_frontmatter
               /\ Range(cc_frontmatter.instructor_guidance_categories) = NotedCategories

\* C18 - PPTXExtractor.extract returns exactly one SlideData per slide of
\* the presentation, in order, with slide_number = 1..n; when a step of the
\* extraction of slide N raises past the per-field handlers, the record of
\* slide N is the placeholder titled 'Slide N (Extraction Failed)' with the
\* single content item '[Content extraction failed]', no exception leaves
\* _extract_slide, and all later slides are still extracted.
C18_OneRecordPerSlide ==
    /\ ex_pc # "raised"
    /\ \A i \in 1..Len(ex_slides_data) :
          /\ ex_slides_data[i].slide_number = i
          /\ IF ex_presentation[i].fault \in { "title", "content", "speaker_notes" }
             THEN /\ ex_slides_data[i].title =
                        <<"S","l","i","d","e"," ">> \o DecStr(i) \o
                        <<" ","(","E","x","t","r","a","c","t","i","o","n"," ",
                          "F","a","i","l","e","d",")">>
                  /\ ex_slides_data[i].content = << "[Content extraction failed]" >>
             ELSE /\ ex_presentation[i].text.title # << >>
                     => ex_slides_data[i].title = ex_presentation[i].text.title
                  /\ ex_presentation[i].text.content # << >>
                     => ex_slides_data[i].content = ex_presentation[i].text.content
    /\ ex_pc = "returned" => Len(ex_slides_data) = Len(ex_presentation)

\* the first slide failed in a core step and the slide after it was
\* extracted with its own text
C18_Witness ==
    /\ ex_pc = "returned"
    /\ Len(ex_presentation) = 2
    /\ ex_presentation[1].fault = "title"
    /\ ex_presentation[2].fault = "none"
    /\ ex_slides_data[2].title = <<"L","a","b">>
    /\ ex_slides_data[2].is_module_start

\* the annotation call for slide k failed
AnnotationFailed(k) ==
    ie_outcomes[k].kind \in { "service_error", "timeout", "malformed_json",
                              "not_an_object" }

\* C19 - In assisted mode, a failure of the external annotation call for
\* slide k (service error, timeout, malformed JSON, a response that is not a
\* JSON object) makes the structure of slide k the heuristic fallback result
\* and affects no other slide: every later slide is still sent to the
\* service, slides annotated successfully keep the service's values, and
\* extract_all_slides still returns one entry per slide in order.
C19_FallbackPerSlide ==
    (ie_use_llm /\ ie_sent # << >>) =>
        /\ ie_sent = [k \in 1..Len(ie_slides) |-> k]
        /\ \A k \in 1..Len(ie_slides) :
              /\ ie_slides[k].content = ie_contents[k]
              /\ ie_slides[k].content.slide_number = k
              /\ IF AnnotationFailed(k)
                 THEN /\ ie_slides[k].structure =
                             fallback_structure_detection(ie_contents[k])
                      /\ ie_slides[k].structure.instructional_notes =
                             "Fallback detection used"
                      /\ ie_slides[k].structure.difficulty_level = "intermediate"
                 ELSE /\ ie_outcomes[k].kind = "json_object"
                      /\ ie_slides[k].structure.instructional_notes =
                             "LLM analysis completed"
                      /\ \A key \in DOMAIN ie_outcomes[k].result
                                    \ { "module_title", "instructional_notes" } :
                             ie_slides[k].structure[key] = ie_outcomes[k].result[key]
        /\ ie_pc = "returned" => Len(ie_slides) = Len(ie_contents)

\* the call for the first slide failed, the second slide was annotated by
\* the service after it and the third one failed again
C19_Witness ==
    /\ ie_pc = "returned"
    /\ Len(ie_slides) = 3
    /\ ie_outcomes[1].kind = "malformed_json"
    /\ ie_outcomes[2].kind = "json_object"
    /\ ie_outcomes[3].kind = "timeout"
    /\ ie_slides[1].structure.activity_type = "demo"
    /\ ie_slides[2].structure.difficulty_level = "advanced"
    /\ ie_slides[3].structure.is_module_start

\* what holds at every point of a _process_files run: the files attempted
\* are a prefix of the list, each once; every file that is finished was
\* reported as failed or as complete, not both; the main task advanced once
\* per finished file; the summary state is reached only with every file
\* attempted
ProcessInvariant ==
    /\ pf_attempted = SubSeq(pf_files, 1, pf_index)
    /\ LET finished == IF pf_pc \in { "extract", "format", "write", "except", "finally" }
                       THEN pf_index - 1 ELSE pf_index
       IN  /\ pf_main_progress = finished
           /\ \A i \in 1..finished :
                 (\E j \in DOMAIN pf_failed : pf_failed[j] = pf_files[i])
                    # (\E j \in DOMAIN pf_succeeded : pf_succeeded[j] = pf_files[i])
           /\ Len(pf_failed) + Len(pf_succeeded)
                 = finished + (IF pf_pc = "finally" THEN 1 ELSE 0)
    /\ pf_pc \in { "summary", "done" } =>
          /\ pf_attempted = pf_files
          /\ pf_main_progress = Len(pf_files)

\* C20 - _process_files attempts every file of its list exactly once, in
\* list order: an exception raised while extracting, formatting or writing
\* one file is caught and reported for that file, the overall progress
\* advances by one for it, processing continues with the next file, and the
\* run always ends with the completion summary.
C20_EveryFileAttempted ==
    /\ []ProcessInvariant
    /\ <>(pf_pc = "done")

\* the run ended after the first file failed and a later file succeeded
C20_Witness ==
    /\ pf_pc = "done"
    /\ Len(pf_files) = 3
    /\ pf_failed = << pf_files[1], pf_files[3] >>
    /\ pf_succeeded = << pf_files[2] >>
    /\ pf_main_progress = 3

-----------------------------------------------------------------------------
(* Properties of determinism, frame, break point,
   equivalence of strategies, validation and titles *)

\* C21 - Document production is deterministic: two runs on identical slide
\* records, presentation name, strategy and chunk_size return identical
\* documents, including the order in which compliance_markers and
\* slide_layout_types are listed in the front-matter.
C21_Deterministic ==
    cc_pc = "rerun" => cc_rerun = cc_frontmatter


\* a chunk without its two position fields
PositionFree(chunk) == [chunk EXCEPT !.chunk_index = 0, !.total_chunks = 0]

\* C22 - format() consumes its input read-only and never changes a chunk
\* after creation except for its position fields: no step after the call
\* changes the slide list, its order or a field of a slide record, and every
\* step keeps each chunk already created equal to itself up to chunk_index
\* and total_chunks.
C22_ReadOnlyInput ==
    [][ /\ pc # "new" => slides_data' = slides_data
        /\ Len(chunks') >= Len(chunks)
        /\ \A i \in 1..Len(chunks) :
              PositionFree(chunks'[i]) = PositionFree(chunks[i]) ]_vars

\* format() has returned after reassigning the position fields of two chunks
\* of a two-slide presentation
C22_Witness ==
    /\ pc = "done"
    /\ Len(slides_data) = 2
    /\ Len(chunks) = 2
    /\ \A i \in 1..2 : chunks[i].total_chunks = 2 /\ chunks[i].chunk_index = i


\* the group the instructional loop is about to break: the current slides
\* and the slide read at pos, when that slide opens no module and the group
\* is above the budget (formatter.py:110-114)
OverBudgetGroup == Append(current_chunk_slides, slides_data[pos])

AboutToBreak ==
    /\ pc = "chunking" /\ strategy = "instructional"
    /\ pos <= Len(slides_data)
    /\ ~starts_new_module(slides_data[pos], current_chunk_slides)
    /\ over_budget(OverBudgetGroup, chunk_size)

\* the largest 0-based index i >= 1 whose slide differs in activity_type from
\* slide i-1, a change to or from none included; else max(1, floor(0.75 n))
BreakPointOfRule(slides) ==
    LET changes == { i \in 1..(Len(slides) - 1) :
                        slides[i + 1].activity_type # slides[i].activity_type }
    IN  IF changes # {}
        THEN CHOOSE i \in changes : \A j \in changes : j <= i
        ELSE Max(1, (3 * Len(slides)) \div 4)

\* C23 - Break-point rule: for an over-budget instructional group,
\* _find_break_point returns the largest index i >= 1 at which slide i's
\* activity_type differs from that of slide i-1 (a change from a set type to
\* none counts, as does a change from none to a set type); if there is no such
\* index it returns max(1, floor(0.75 * group size)).
C23_BreakPointRule ==
    AboutToBreak => find_break_point(OverBudgetGroup) = BreakPointOfRule(OverBudgetGroup)


\* slide range, module title and module_id of each chunk, in order
Outline(cs) ==
    [i \in 1..Len(cs) |-> << cs[i].slide_range, cs[i].module_title, cs[i].module_id >>]

\* no slide group of the chunks is estimated above the budget
WithinBudget(cs) ==
    \A i \in 1..Len(cs) :
        estimate_chunk_tokens(SubSeq(slides_data, cs[i].slide_range[1],
                                     cs[i].slide_range[2])) <= chunk_size

\* no group between two module boundaries is estimated above the budget
NeverOverBudget == WithinBudget(chunk_by_modules(slides_data))

\* C24 - When chunk_size is so large that no group's estimated token count
\* ever exceeds it, the instructional strategy produces exactly the chunks of
\* the module-based strategy on the same input: the same sequence of slide
\* ranges, module titles and module_ids (the module-based pass of the state
\* machine and _chunk_by_modules as a function are compared as well).
C24_InstructionalAsModules ==
    (ChunkingDone /\ strategy \in { "instructional", "module-based" }) =>
        LET by_modules == chunk_by_modules(slides_data)
        IN  WithinBudget(by_modules) => Outline(chunks) = Outline(by_modules)

\* an instructional pass that stayed within the budget although the budget is
\* the small one, and split the presentation at module starts
C24_Witness ==
    /\ pc = "done" /\ strategy = "instructional" /\ chunk_size = 2
    /\ NeverOverBudget
    /\ Len(slides_data) = 3
    /\ Len(chunks) = 2


\* the values the prompt allows for difficulty_level
\* (intelligent_extractor.py:229)
DifficultyEnum == { "beginner", "intermediate", "advanced" }

\* C25 - In assisted mode the service's response is validated field by
\* field: a difficulty_level that is absent or outside {beginner,
\* intermediate, advanced} and an estimated_time_minutes that is absent or
\* not a positive integer are replaced by the value heuristic mode gives for
\* that slide, so every returned structure has a difficulty_level in the
\* enum and a positive integer estimated time.
C25_ResponseValidated ==
    \A k \in 1..Len(ie_slides) :
        ie_outcomes[k].kind = "json_object" =>
            LET result    == ie_outcomes[k].result
                structure == ie_slides[k].structure
                heuristic == fallback_structure_detection(ie_contents[k])
            IN  /\ structure.difficulty_level \in DifficultyEnum
                /\ structure.estimated_time_minutes \in Nat \ {0}
                /\ ( \/ "difficulty_level" \notin DOMAIN result
                     \/ result["difficulty_level"] \notin DifficultyEnum )
                   => structure.difficulty_level = heuristic.difficulty_level
                /\ ( \/ "estimated_time_minutes" \notin DOMAIN result
                     \/ result["estimated_time_minutes"] \notin Nat \ {0} )
                   => structure.estimated_time_minutes = heuristic.estimated_time_minutes


\* a two-slide presentation whose second slide has the title, the content
\* and the module-start flag of the _is_module_start call
AfterPlainSlide ==
    << SlideAt(1, [title |-> <<"T">>, content |-> << <<"c">> >>,
                   speaker_notes |-> << >>], FALSE, None),
       SlideAt(2, [title |-> ms_title, content |-> ms_content,
                   speaker_notes |-> << >>], ms_result, None) >>

\* C26 - A slide whose title carries only an activity word is an activity,
\* not a module start: _is_module_start returns false for the titles
\* 'Lab: Hands-on Exercise' and 'Lab: Create Azure Account' with short or
\* empty body content, so such a slide opens no new chunk in the module-based
\* strategy (nor in the instructional one, which splits at the same slides).
C26_ActivityIsNoModuleStart ==
    ( /\ ms_pc = "returned"
      /\ ms_title \in ActivityTitles
      /\ Len(JoinWithSpace(ms_content)) <= 3 )
    => /\ ms_result = FALSE
       /\ Len(chunk_by_modules(AfterPlainSlide)) = 1


\* the estimate of formatter.py:474-478 for slide dicts: a quarter of the
\* characters of title, text and notes
PipelineTokens(slides) ==
    LET chars == [i \in 1..Len(slides) |->
                     Len(slides[i].content.title)
                     + SumLen(slides[i].content.text_content)
                     + Len(slides[i].content.speaker_notes)]
        RECURSIVE Sum(_)
        Sum(k) == IF k = 0 THEN 0 ELSE chars[k] + Sum(k - 1)
    IN  Sum(Len(slides)) \div 4

\* C27 - The command-line pipeline chunks each presentation with the
\* strategy selected by --strategy and the budget given by --chunk-size:
\* processing a presentation that has no module-start slide after the first
\* with strategy 'sequential' and a chunk size below the presentation's total
\* estimated tokens (but above each single slide's) produces at least two
\* documents.
C27_PipelineUsesOptions ==
    ( /\ pl_pc = "done"
      /\ pl_strategy = "sequential"
      /\ \A k \in 2..Len(pl_slides_data) : ~pl_slides_data[k].structure.is_module_start
      /\ pl_chunk_size < PipelineTokens(pl_slides_data)
      /\ \A k \in 1..Len(pl_slides_data) :
            PipelineTokens(<< pl_slides_data[k] >>) < pl_chunk_size )
    => Cardinality(DOMAIN pl_markdown_files) >= 2


\* C28 - In the instructional and module-based strategies a slide with
\* is_module_start = true is always the first slide of the chunk that
\* contains it: after any sequence of module-start splits and token-budget
\* early breaks, no group handed to _create_chunk and no group being
\* collected holds a module-start slide at a position other than its first.
C28_ModuleStartFirst ==
    strategy \in { "instructional", "module-based" } =>
        /\ \A i \in 1..Len(create_calls) :
              \A k \in 2..Len(create_calls[i]) :
                  ~slides_data[create_calls[i][k]].is_module_start
        /\ \A k \in 2..Len(current_chunk_slides) :
              ~current_chunk_slides[k].is_module_start

\* an instructional pass that broke the first group early, emptied it, and
\* then read a module-start slide that heads a chunk of two slides
C28_Witness ==
    /\ pc = "done" /\ strategy = "instructional"
    /\ create_calls = << << 1 >>, << 2, 3 >> >>
    /\ Oversized(slides_data[1])
    /\ slides_data[2].is_module_start

\* C29 - In the instructional and module-based strategies, every chunk whose
\* first slide is a module-start slide with a non-empty title carries that
\* slide's title as module_title and its slug in module_id; this holds for
\* the first chunk of the presentation and for a chunk that begins right
\* after a token-budget early break as well.
C29_ModuleStartTitle ==
    (ChunkingDone /\ strategy \in { "instructional", "module-based" }) =>
        \A i \in 1..Len(chunks) :
            LET first == slides_data[chunks[i].slide_range[1]]
            IN  (first.is_module_start /\ first.title # << >>) =>
                    /\ chunks[i].module_title = first.title
                    /\ \E number \in 1..(Len(slides_data) + 1) :
                          chunks[i].module_id = generate_module_id(first.title, number)

\* C30 - In every document produced by format(), the front-matter field
\* learning_context.module_sequence_position agrees with the chunk's final
\* position fields: it is '<chunk_index> of <total_chunks>' for the
\* chunk_index and total_chunks rendered in the same front-matter.
C30_SequencePosition ==
    \A i \in 1..Len(rendered) :
        LET fm == rendered[i].content.frontmatter
        IN  /\ "learning_context" \in DOMAIN fm
            /\ fm["learning_context"].module_sequence_position =
                   DecStr(fm["chunk_index"]) \o <<" ","o","f"," ">>
                       \o DecStr(fm["total_chunks"])

====
